---- MODULE Spec2Model ----
(***************************************************************************)
(* A model of the image quality analyzer: the pixel-analysis engines       *)
(* (lib/image-analysis.ts, lib/blur-detection.ts,                          *)
(* lib/contrast-brightness-analysis.ts, lib/ai-classification.ts) and the  *)
(* analyzeImage pipeline that runs them on the pixels of a loaded image.   *)
(*                                                                         *)
(* Numbers.  The code computes in IEEE doubles; the model computes in      *)
(* fixed point with floor rounding:                                        *)
(*   - a score in [0,1] is an integer number of 1/SCALE units ("u5");      *)
(*   - a luminance is an integer number of thousandths (299R+587G+114B,    *)
(*     exact); kernel responses and gradients are thousandths too;         *)
(*   - a squared luminance difference is formed from tenths, so variances  *)
(*     are in hundredths of a squared luminance unit ("c2");               *)
(*   - NaN, Inf and NegInf are three reserved integers that the J*         *)
(*     operators propagate the way JavaScript arithmetic does.             *)
(***************************************************************************)
EXTENDS Integers, Sequences, FiniteSets, Bags, TLC

SCALE == 10 ^ 5

NaN == -(2 ^ 30)
Inf == 2 ^ 30
NegInf == -(2 ^ 30) + 1

(***************************************************************************)
(* JavaScript number arithmetic on the fixed-point values.                 *)
(***************************************************************************)
Finite(a) == a # NaN /\ a # Inf /\ a # NegInf

Abs(a) == IF a < 0 THEN -a ELSE a

Min2(a, b) == IF a < b THEN a ELSE b

Max2(a, b) == IF a > b THEN a ELSE b

\* a + b
JAdd(a, b) ==
  IF a = NaN \/ b = NaN THEN NaN
  ELSE IF a = Inf THEN (IF b = NegInf THEN NaN ELSE Inf)
  ELSE IF a = NegInf THEN (IF b = Inf THEN NaN ELSE NegInf)
  ELSE IF b = Inf \/ b = NegInf THEN b
  ELSE a + b

\* -a
JNeg(a) == IF a = NaN THEN NaN ELSE IF a = Inf THEN NegInf ELSE IF a = NegInf THEN Inf ELSE -a

\* a - b
JSub(a, b) == JAdd(a, JNeg(b))

\* Math.abs(a)
JAbs(a) == IF a = NaN THEN NaN ELSE IF a = Inf \/ a = NegInf THEN Inf ELSE Abs(a)

\* a * n / d for a finite non-negative integer factor n and a positive integer d
JScale(a, n, d) ==
  IF a = NaN THEN NaN
  ELSE IF a = Inf \/ a = NegInf THEN (IF n = 0 THEN NaN ELSE a)
  ELSE (a * n) \div d

\* a < b, a > b, a >= b: every comparison with NaN is false
JLt(a, b) ==
  /\ a # NaN /\ b # NaN /\ a # b
  /\ \/ a = NegInf \/ b = Inf
     \/ (Finite(a) /\ Finite(b) /\ a < b)

JGt(a, b) == JLt(b, a)

JGe(a, b) == a # NaN /\ b # NaN /\ ~JLt(a, b)

\* Math.min(a, b), Math.max(a, b): NaN if either argument is NaN
JMin(a, b) == IF a = NaN \/ b = NaN THEN NaN ELSE IF JLt(a, b) THEN a ELSE b

JMax(a, b) == IF a = NaN \/ b = NaN THEN NaN ELSE IF JLt(a, b) THEN b ELSE a

\* floor(num * 10^k / den) for 0 <= num < den, one decimal digit at a time
RECURSIVE Digits(_, _, _)
Digits(num, den, k) ==
  IF k = 0 THEN 0
  ELSE ((num * 10) \div den) * (10 ^ (k - 1)) + Digits((num * 10) % den, den, k - 1)

\* num / den as a score (u5), for finite num >= 0 and den > 0
Ratio(num, den) == (num \div den) * SCALE + Digits(num % den, den, 5)

\* num / den as a score (u5), with JavaScript's 0/0, x/0 and NaN
JRatio(num, den) ==
  IF num = NaN \/ den = NaN THEN NaN
  ELSE IF den = 0 THEN (IF num = 0 THEN NaN ELSE IF num > 0 THEN Inf ELSE NegInf)
  ELSE IF num = Inf \/ num = NegInf THEN num
  ELSE IF num < 0 THEN -Ratio(-num, den)
  ELSE Ratio(num, den)

\* num / den in the units of num (floor), with JavaScript's 0/0, x/0 and NaN
JQuot(num, den) ==
  IF num = NaN \/ den = NaN THEN NaN
  ELSE IF den = 0 THEN (IF num = 0 THEN NaN ELSE IF num > 0 THEN Inf ELSE NegInf)
  ELSE IF num = Inf \/ num = NegInf THEN num
  ELSE num \div den

\* floor(sqrt(n)) for n >= 0, by bisection on lo..hi
RECURSIVE SqrtIn(_, _, _)
SqrtIn(n, lo, hi) ==
  IF lo >= hi THEN lo
  ELSE LET mid == (lo + hi + 1) \div 2
       IN IF mid * mid <= n THEN SqrtIn(n, mid, hi) ELSE SqrtIn(n, lo, mid - 1)

ISqrt(n) == SqrtIn(n, 0, Min2(n, 46340))

\* Math.sqrt(a)
JSqrt(a) == IF a = NaN \/ a = NegInf THEN NaN ELSE IF a = Inf THEN Inf ELSE IF a < 0 THEN NaN ELSE ISqrt(a)

\* The sum of F over the finite set S, for F >= 0 (a bag's cardinality is the
\* sum of its counts; counts are positive, hence the shift by one).
Sum(F(_), S) == IF S = {} THEN 0 ELSE BagCardinality([i \in S |-> F(i) + 1]) - Cardinality(S)

\* The same sum in JavaScript: NaN as soon as one term is NaN.  `clean` says
\* that no term can be NaN (every pixel read is inside the buffer).
JSum(F(_), S, clean) ==
  IF clean THEN Sum(F, S)
  ELSE IF \E i \in S : F(i) = NaN THEN NaN ELSE Sum(F, S)

\* an optional argument that was not passed, a local that has not been set
undefined == [undefined |-> TRUE]

(***************************************************************************)
(* Pixel buffers.  An ImageData is [width, height, data]; data is the RGBA *)
(* byte array, and data[i] of the code is data[i + 1] here.                *)
(***************************************************************************)
ImageData(d, w, h) == [width |-> w, height |-> h, data |-> d]

\* the byte array of n bytes whose pixel number p (row-major) has colour C(p)
Bytes(C(_), n) ==
  SubSeq([i \in 1..n |-> IF i % 4 = 0 THEN 255 ELSE C((i - 1) \div 4)[((i - 1) % 4) + 1]], 1, n)

\* a w x h image of one colour
Solid(w, h, c) == ImageData(Bytes(LAMBDA p : c, w * h * 4), w, h)

\* a w x h image whose left half is colour a and whose right half is colour b
Halves(w, h, a, b) ==
  ImageData(Bytes(LAMBDA p : IF 2 * (p % w) < w THEN a ELSE b, w * h * 4), w, h)

\* a w x h image of vertical stripes, one pixel wide, alternately a and b
Stripes(w, h, a, b) ==
  ImageData(Bytes(LAMBDA p : IF (p % w) % 2 = 0 THEN a ELSE b, w * h * 4), w, h)

\* a w x h image of gray levels rising by `step` per column from `base`
Ramp(w, h, base, step) ==
  ImageData(Bytes(LAMBDA p : LET v == base + step * (p % w) IN <<v, v, v>>, w * h * 4), w, h)

\* a w x h checkerboard of the colours a and b
Checker(w, h, a, b) ==
  ImageData(Bytes(LAMBDA p : IF ((p % w) + (p \div w)) % 2 = 0 THEN a ELSE b, w * h * 4), w, h)

\* a w x h image whose left half is colour a and whose right half is a
\* checkerboard of a and b
HalfChecker(w, h, a, b) ==
  ImageData(Bytes(LAMBDA p : IF 2 * (p % w) < w \/ ((p % w) + (p \div w)) % 2 = 0 THEN a ELSE b,
                  w * h * 4), w, h)

\* a w x h image of colour a whose centre pixel has colour b
Dot(w, h, a, b) ==
  ImageData(Bytes(LAMBDA p : IF p = (h \div 2) * w + (w \div 2) THEN b ELSE a, w * h * 4), w, h)

\* a w x h image of colour a whose pixel (x, y) has colour b
Spot(w, h, a, b, x, y) ==
  ImageData(Bytes(LAMBDA p : IF p = y * w + x THEN b ELSE a, w * h * 4), w, h)

\* the first n bytes of an image's data under the dimensions w x h
Reshaped(img, w, h, n) == ImageData(SubSeq(img.data, 1, n), w, h)

\* width > 0, height > 0 and data.length = width * height * 4
WellFormed(img) ==
  img.width > 0 /\ img.height > 0 /\ Len(img.data) = img.width * img.height * 4

\* data[i]: undefined (NaN in arithmetic) outside the array
Px(img, i) == IF i >= 0 /\ i < Len(img.data) THEN img.data[i + 1] ELSE NaN

\* 0.299 * data[idx] + 0.587 * data[idx + 1] + 0.114 * data[idx + 2], in thousandths
Gray(img, idx) ==
  LET r == Px(img, idx)
      g == Px(img, idx + 1)
      b == Px(img, idx + 2)
  IN IF r = NaN \/ g = NaN \/ b = NaN THEN NaN ELSE 299 * r + 587 * g + 114 * b

\* the number of pixels a pass `for (i = 0; i < data.length; i += 4)` visits
PixelSteps(img) == (Len(img.data) + 3) \div 4

\* Gray of every pixel index the engines can form, computed once per pass:
\* GrayPlane(img)[p + 1] = Gray(img, 4 * p)
GrayPlane(img) ==
  LET n == Max2(img.width * img.height, PixelSteps(img))
  IN SubSeq([p \in 1..n |-> Gray(img, 4 * (p - 1))], 1, n)

\* no Gray of the plane is NaN
Clean(plane) == \A p \in 1..Len(plane) : plane[p] # NaN

\* the interior pixels (x, y): 1 <= x < width - 1, 1 <= y < height - 1
Interior(w, h) == (1..(w - 2)) \X (1..(h - 2))

\* the sum over the 3x3 neighbourhood of (x, y) of gray * K[(ky + 1) * 3 + (kx + 1)]
Conv3(P, w, x, y, K) ==
  LET at(kx, ky) == P[(y + ky) * w + (x + kx) + 1]
  IN IF \E kx \in {-1, 0, 1}, ky \in {-1, 0, 1} : at(kx, ky) = NaN THEN NaN
     ELSE at(-1, -1) * K[1] + at(0, -1) * K[2] + at(1, -1) * K[3]
        + at(-1, 0) * K[4] + at(0, 0) * K[5] + at(1, 0) * K[6]
        + at(-1, 1) * K[7] + at(0, 1) * K[8] + at(1, 1) * K[9]

laplacianKernel == <<0, -1, 0, -1, 4, -1, 0, -1, 0>>

sobelX == <<-1, 0, 1, -2, 0, 2, -1, 0, 1>>

sobelY == <<-1, -2, -1, 0, 0, 0, 1, 2, 1>>

\* a squared luminance difference (c2) from a difference in thousandths
Sq(d) == (Abs(d) \div 100) * (Abs(d) \div 100)

(***************************************************************************)
(* ImageAnalyzer: the five metrics.                                        *)
(***************************************************************************)
\* the sum of |Laplacian response| over the interior pixels, in thousandths
calculateSharpness(img) ==
  LET w == img.width
      P == GrayPlane(img)
  IN JSum(LAMBDA p : JAbs(Conv3(P, w, p[1], p[2], laplacianKernel)),
          Interior(w, img.height), Clean(P))

\* sqrt(sum((gray - avgBrightness)^2) / (data.length / 4)), in hundredths
calculateContrast(img, avgBrightness) ==
  LET P == GrayPlane(img)
      steps == 1..PixelSteps(img)
      variance ==
        IF steps = {} THEN 0
        ELSE IF avgBrightness = NaN THEN NaN
        ELSE IF ~Finite(avgBrightness) THEN Inf
        ELSE JSum(LAMBDA j : IF P[j] = NaN THEN NaN ELSE Sq(P[j] - avgBrightness) \div 100,
                  steps, Clean(P))
      mean == JQuot(JScale(variance, 4, 1), Len(img.data))
  IN JSqrt(JScale(mean, 10000, 1))

\* the sum over the interior pixels of the mean squared difference between
\* the pixel and its 3x3 neighbourhood, in c2
calculateNoise(img) ==
  LET w == img.width
      P == GrayPlane(img)
      local(x, y) ==
        LET at(dx, dy) == P[(y + dy) * w + (x + dx) + 1]
            c == at(0, 0)
        IN IF \E dx \in {-1, 0, 1}, dy \in {-1, 0, 1} : at(dx, dy) = NaN THEN NaN
           ELSE ( Sq(at(-1, -1) - c) + Sq(at(0, -1) - c) + Sq(at(1, -1) - c)
                + Sq(at(-1, 0) - c) + Sq(at(0, 0) - c) + Sq(at(1, 0) - c)
                + Sq(at(-1, 1) - c) + Sq(at(0, 1) - c) + Sq(at(1, 1) - c) ) \div 9
  IN JSum(LAMBDA p : local(p[1], p[2]), Interior(w, img.height), Clean(P))

\* (max - min) / max of a pixel's r, g, b; 0 when max is 0
PixelSaturation(img, i) ==
  LET r == Px(img, i)
      g == Px(img, i + 1)
      b == Px(img, i + 2)
      max == Max2(r, Max2(g, b))
      min == Min2(r, Min2(g, b))
  IN IF r = NaN \/ g = NaN \/ b = NaN THEN NaN
     ELSE IF max = 0 THEN 0 ELSE Ratio(max - min, max)

calculateMetrics(img) ==
  LET pixelCount == img.width * img.height
      P == GrayPlane(img)
      steps == 1..PixelSteps(img)
      totalBrightness == JSum(LAMBDA j : P[j], steps, Clean(P))
      totalSaturation == JSum(LAMBDA j : PixelSaturation(img, 4 * (j - 1)), steps, Clean(P))
      sharpnessSum == calculateSharpness(img)
      totalContrast == calculateContrast(img, JQuot(totalBrightness, pixelCount))
      noiseSum == calculateNoise(img)
  IN [ sharpness  |-> JMin(JRatio(sharpnessSum, 1000 * pixelCount), SCALE),
       contrast   |-> JMin(JRatio(totalContrast, 25500), SCALE),
       brightness |-> JRatio(JQuot(totalBrightness, pixelCount), 255000),
       saturation |-> JQuot(totalSaturation, pixelCount),
       noise      |-> JMin(JRatio(noiseSum, 100 * pixelCount), SCALE) ]

(***************************************************************************)
(* BlurDetector.                                                           *)
(***************************************************************************)
blockSize == 32

\* the variance of |Laplacian response| over the interior pixels (two
\* passes: mean, then variance), in c2; 0/0 = NaN when there is no interior
calculateLaplacianVariance(img) ==
  LET w == img.width
      P == GrayPlane(img)
      clean == Clean(P)
      pixels == Interior(w, img.height)
      count == Cardinality(pixels)
      resp(p) == JAbs(Conv3(P, w, p[1], p[2], laplacianKernel))
      mean == JQuot(JSum(resp, pixels, clean), count)
      variance ==
        IF pixels = {} THEN 0
        ELSE IF mean = NaN THEN NaN
        ELSE JSum(LAMBDA p : Sq(resp(p) - mean), pixels, clean)
  IN JQuot(variance, count)

\* the mean Sobel gradient magnitude over the interior pixels, in tenths
calculateSobelVariance(img) ==
  LET w == img.width
      P == GrayPlane(img)
      pixels == Interior(w, img.height)
      magnitude(p) ==
        LET gx == Conv3(P, w, p[1], p[2], sobelX)
            gy == Conv3(P, w, p[1], p[2], sobelY)
        IN IF gx = NaN \/ gy = NaN THEN NaN ELSE ISqrt(Sq(gx) + Sq(gy))
  IN JQuot(JSum(magnitude, pixels, Clean(P)), Cardinality(pixels))

\* sqrt(gradX^2 + gradY^2) of a pixel against its right and bottom
\* neighbours, in tenths
GradMagnitude(P, w, x, y) ==
  LET gray == P[y * w + x + 1]
      rightGray == P[y * w + (x + 1) + 1]
      bottomGray == P[(y + 1) * w + x + 1]
  IN IF gray = NaN \/ rightGray = NaN \/ bottomGray = NaN THEN NaN
     ELSE ISqrt(Sq(rightGray - gray) + Sq(bottomGray - gray))

\* the share of the gradient magnitude that lies above the threshold 10 (u5)
calculateFFTSharpness(img) ==
  LET w == img.width
      P == GrayPlane(img)
      clean == Clean(P)
      pixels == Interior(w, img.height)
      mag(p) == GradMagnitude(P, w, p[1], p[2])
      totalEnergy == JSum(mag, pixels, clean)
      highFreqEnergy ==
        JSum(LAMBDA p : IF mag(p) = NaN THEN NaN ELSE IF mag(p) > 100 THEN mag(p) ELSE 0,
             pixels, clean)
  IN IF JGt(totalEnergy, 0) THEN JRatio(highFreqEnergy, totalEnergy) ELSE 0

\* min(laplacian / 1000, 1) * 0.4 + min(sobel / 100, 1) * 0.4 + min(fft, 1) * 0.2
combineBlurScores(laplacian, sobel, fft) ==
  LET normalizedLaplacian == JMin(laplacian, SCALE)
      normalizedSobel == JMin(JScale(sobel, 100, 1), SCALE)
      normalizedFFT == JMin(fft, SCALE)
  IN JAdd(JAdd(JScale(normalizedLaplacian, 4, 10), JScale(normalizedSobel, 4, 10)),
          JScale(normalizedFFT, 2, 10))

\* the mean |gray2 - gray1| over the interior pixels, gray2 the neighbour at
\* offset `step`, in thousandths; 0 when no pixel qualifies
calculateDirectionalBlur(img, step) ==
  LET w == img.width
      h == img.height
      P == GrayPlane(img)
      pixels == {p \in Interior(w, h) : p[1] + step[1] < w /\ p[2] + step[2] < h}
      diff(p) ==
        LET gray1 == P[p[2] * w + p[1] + 1]
            gray2 == P[(p[2] + step[2]) * w + (p[1] + step[1]) + 1]
        IN IF gray1 = NaN \/ gray2 = NaN THEN NaN ELSE Abs(gray2 - gray1)
  IN IF pixels # {} THEN JQuot(JSum(diff, pixels, Clean(P)), Cardinality(pixels)) ELSE 0

\* a slip: the motion test is inclusive (>= for >), so three equal
\* directional differences count as motion
detectBlurTypeInclusive(img, overallScore) ==
  IF JGt(overallScore, (7 * SCALE) \div 10) THEN "none"
  ELSE LET horizontalBlur == calculateDirectionalBlur(img, <<1, 0>>)
           verticalBlur == calculateDirectionalBlur(img, <<0, 1>>)
           diagonalBlur == calculateDirectionalBlur(img, <<1, 1>>)
           maxDirectional == JMax(horizontalBlur, JMax(verticalBlur, diagonalBlur))
           sumDirectional == JAdd(horizontalBlur, JAdd(verticalBlur, diagonalBlur))
       IN IF JGe(JScale(maxDirectional, 2, 1), sumDirectional) THEN "motion"
          ELSE IF JLt(overallScore, (3 * SCALE) \div 10) THEN "focus"
          ELSE "gaussian"

\* a slip: the focus test comes before the motion test
detectBlurTypeFocusFirst(img, overallScore) ==
  IF JGt(overallScore, (7 * SCALE) \div 10) THEN "none"
  ELSE LET horizontalBlur == calculateDirectionalBlur(img, <<1, 0>>)
           verticalBlur == calculateDirectionalBlur(img, <<0, 1>>)
           diagonalBlur == calculateDirectionalBlur(img, <<1, 1>>)
           maxDirectional == JMax(horizontalBlur, JMax(verticalBlur, diagonalBlur))
           sumDirectional == JAdd(horizontalBlur, JAdd(verticalBlur, diagonalBlur))
       IN IF JLt(overallScore, (3 * SCALE) \div 10) THEN "focus"
          ELSE IF JGt(JScale(maxDirectional, 2, 1), sumDirectional) THEN "motion"
          ELSE "gaussian"

\* maxDirectional > avgDirectional * 1.5, with avgDirectional the mean of the
\* three: 2 * max > horizontal + vertical + diagonal
detectBlurType(img, overallScore) ==
  IF JGt(overallScore, (7 * SCALE) \div 10) THEN "none"
  ELSE LET horizontalBlur == calculateDirectionalBlur(img, <<1, 0>>)
           verticalBlur == calculateDirectionalBlur(img, <<0, 1>>)
           diagonalBlur == calculateDirectionalBlur(img, <<1, 1>>)
           maxDirectional == JMax(horizontalBlur, JMax(verticalBlur, diagonalBlur))
           sumDirectional == JAdd(horizontalBlur, JAdd(verticalBlur, diagonalBlur))
       IN IF JGt(JScale(maxDirectional, 2, 1), sumDirectional) THEN "motion"
          ELSE IF JLt(overallScore, (3 * SCALE) \div 10) THEN "focus"
          ELSE "gaussian"

\* a fresh blockWidth x blockHeight ImageData copied from (startX, startY)
extractBlock(img, startX, startY, blockWidth, blockHeight) ==
  LET n == blockWidth * blockHeight * 4
      source(t) ==
        LET x == ((t - 1) \div 4) % blockWidth
            y == ((t - 1) \div 4) \div blockWidth
        IN ((startY + y) * img.width + (startX + x)) * 4 + ((t - 1) % 4)
      \* a Uint8ClampedArray element set from undefined is 0
      byte(t) == IF Px(img, source(t)) = NaN THEN 0 ELSE Px(img, source(t))
  IN ImageData(SubSeq([t \in 1..n |-> byte(t)], 1, n), blockWidth, blockHeight)

\* a slip: the block is cut out in place, blockData being the input's own array
extractBlockWritesInPlace(img, startX, startY, blockWidth, blockHeight) ==
  IF blockWidth > 0 /\ blockHeight > 0 THEN {"data"} ELSE {}

\* The arrays a call stores into, by name; "data" is the data array of the
\* buffer passed in.  extractBlock stores into blockData, a new
\* Uint8ClampedArray, once per byte of the block.
extractBlockWrites(img, startX, startY, blockWidth, blockHeight) ==
  IF blockWidth > 0 /\ blockHeight > 0 THEN {"blockData"} ELSE {}

\* a slip: the loops are nested the other way round, x outside and y inside
RECURSIVE BlocksFromByColumn(_, _, _, _)
BlocksFromByColumn(x, y, width, height) ==
  IF ~(x < width - blockSize) THEN <<>>
  ELSE IF ~(y < height - blockSize) THEN BlocksFromByColumn(x + blockSize, 0, width, height)
  ELSE <<[x |-> x, y |-> y]>> \o BlocksFromByColumn(x, y + blockSize, width, height)

\* the blocks in the order the two loops visit them: by y, then by x
RECURSIVE BlocksFrom(_, _, _, _)
BlocksFrom(x, y, width, height) ==
  IF ~(y < height - blockSize) THEN <<>>
  ELSE IF ~(x < width - blockSize) THEN BlocksFrom(0, y + blockSize, width, height)
  ELSE <<[x |-> x, y |-> y]>> \o BlocksFrom(x + blockSize, y, width, height)

\* the region of a block, or <<>> when the block is not blurred
BlockRegion(img, b) ==
  LET blockBlurScore == calculateLaplacianVariance(extractBlock(img, b.x, b.y, blockSize, blockSize))
  IN IF JLt(blockBlurScore, 500 * 100)
     THEN <<[ x |-> b.x, y |-> b.y, width |-> blockSize, height |-> blockSize,
              blurScore |-> JSub(SCALE, JMin(blockBlurScore, SCALE)),
              type |-> IF JLt(blockBlurScore, 200 * 100) THEN "focus" ELSE "motion" ]>>
     ELSE <<>>

RECURSIVE RegionsOf(_, _)
RegionsOf(img, blocks) ==
  IF blocks = <<>> THEN <<>>
  ELSE BlockRegion(img, Head(blocks)) \o RegionsOf(img, Tail(blocks))

detectBlurRegions(img, width, height) == RegionsOf(img, BlocksFrom(0, 0, width, height))

\* the stores of detectBlurRegions: those of extractBlock for every block, and
\* regions.push
detectBlurRegionsWrites(img, width, height) ==
  LET blocks == BlocksFrom(0, 0, width, height)
  IN UNION {extractBlockWrites(img, blocks[i].x, blocks[i].y, blockSize, blockSize) :
              i \in DOMAIN blocks}
       \cup (IF \E i \in DOMAIN blocks : BlockRegion(img, blocks[i]) # <<>>
             THEN {"regions"} ELSE {})

RECURSIVE SumScores(_)
SumScores(regions) ==
  IF regions = <<>> THEN 0 ELSE JAdd(Head(regions).blurScore, SumScores(Tail(regions)))

\* a slip: the confidence is returned without the final clamp to [0.3, 0.95]
calculateBlurConfidenceUnclamped(overallScore, regions) ==
  LET base == (8 * SCALE) \div 10
      consistent ==
        IF Len(regions) > 0
        THEN LET avgRegionScore == JQuot(SumScores(regions), Len(regions))
                 scoreConsistency == JSub(SCALE, JAbs(JSub(overallScore, avgRegionScore)))
             IN JScale(scoreConsistency, 8, 10)
        ELSE base
  IN IF JLt(overallScore, (2 * SCALE) \div 10) \/ JGt(overallScore, (8 * SCALE) \div 10)
     THEN JAdd(consistent, SCALE \div 10)
     ELSE consistent

calculateBlurConfidence(overallScore, regions) ==
  LET base == (8 * SCALE) \div 10
      consistent ==
        IF Len(regions) > 0
        THEN LET avgRegionScore == JQuot(SumScores(regions), Len(regions))
                 scoreConsistency == JSub(SCALE, JAbs(JSub(overallScore, avgRegionScore)))
             IN JScale(scoreConsistency, 8, 10)
        ELSE base
      confidence ==
        IF JLt(overallScore, (2 * SCALE) \div 10) \/ JGt(overallScore, (8 * SCALE) \div 10)
        THEN JAdd(consistent, SCALE \div 10)
        ELSE consistent
  IN JMax((3 * SCALE) \div 10, JMin((95 * SCALE) \div 100, confidence))

analyzeBlur(img) ==
  LET laplacianScore == calculateLaplacianVariance(img)
      sobelScore == calculateSobelVariance(img)
      fftScore == calculateFFTSharpness(img)
      overallBlurScore == combineBlurScores(laplacianScore, sobelScore, fftScore)
      blurRegions == detectBlurRegions(img, img.width, img.height)
  IN [ overallBlurScore |-> overallBlurScore,
       blurType         |-> detectBlurType(img, overallBlurScore),
       blurRegions      |-> blurRegions,
       confidence       |-> calculateBlurConfidence(overallBlurScore, blurRegions) ]

(***************************************************************************)
(* ContrastBrightnessAnalyzer.                                             *)
(***************************************************************************)
HISTOGRAM_BINS == 256

Bins == 0..(HISTOGRAM_BINS - 1)

\* the sum of F over the bins lo..hi
BinSum(F(_), lo, hi) == Sum(F, lo..hi)

\* a slip: Math.ceil in place of Math.round, with the luminance 255 of a white
\* pixel computed a hair above 255
RoundUp(gray) == (gray + 1000) \div 1000

\* Math.round of a luminance in thousandths
Round(gray) == (gray + 500) \div 1000

\* the count array that `counts[V(j)]++` over the pixels j builds; an
\* undefined or NaN index increments no bin
Counts(V(_), steps) ==
  LET valid == {j \in steps : V(j) # NaN}
      bag == BagOfAll(V, SetToBag(valid))
  IN [b \in Bins |-> IF valid = {} THEN 0 ELSE CopiesIn(b, bag)]

calculateHistogram(img) ==
  LET steps == 0..(PixelSteps(img) - 1)
  IN [ red       |-> Counts(LAMBDA j : Px(img, 4 * j), steps),
       green     |-> Counts(LAMBDA j : Px(img, 4 * j + 1), steps),
       blue      |-> Counts(LAMBDA j : Px(img, 4 * j + 2), steps),
       luminance |-> Counts(LAMBDA j : IF Gray(img, 4 * j) = NaN THEN NaN
                                       ELSE Round(Gray(img, 4 * j)), steps),
       bins      |-> HISTOGRAM_BINS ]

\* the stores of calculateHistogram: red[r]++, green[g]++, blue[b]++ and
\* luminance[lum]++ on four new arrays, once per pixel
calculateHistogramWrites(img) ==
  IF PixelSteps(img) > 0 THEN {"red", "green", "blue", "luminance"} ELSE {}

\* a slip: the scan for the first bin with a count is skipped and the
\* default is returned
findMinNonZeroDefault(histogram) == 0

\* the first bin with a count, 0 when there is none
findMinNonZero(histogram) ==
  IF \E i \in Bins : histogram[i] > 0
  THEN CHOOSE i \in Bins : histogram[i] > 0 /\ \A k \in Bins : histogram[k] > 0 => i <= k
  ELSE 0

\* the last bin with a count, 255 when there is none
findMaxNonZero(histogram) ==
  IF \E i \in Bins : histogram[i] > 0
  THEN CHOOSE i \in Bins : histogram[i] > 0 /\ \A k \in Bins : histogram[k] > 0 => i >= k
  ELSE 255

\* the pixels the bins 0..i hold
Cumulative(histogram, i) == BinSum(LAMBDA k : histogram[k], 0, i)

\* the first bin at which the cumulative count reaches half the pixels
calculateMedianFromHistogram(histogram) ==
  LET totalPixels == Cumulative(histogram, HISTOGRAM_BINS - 1)
      reached(i) == 2 * Cumulative(histogram, i) >= totalPixels
  IN IF \E i \in Bins : reached(i)
     THEN CHOOSE i \in Bins : reached(i) /\ \A k \in Bins : reached(k) => i <= k
     ELSE 128

\* p90 / p10, or 1 when p10 is 0 (u5).  The loop stops at the first bin
\* whose cumulative count reaches 90% of the pixels (p90, 255 when none
\* does); up to and including that bin, p10 is assigned the bin index
\* whenever the cumulative count has reached 10% and p10 is still 0, so a
\* bin 0 that qualifies leaves p10 at 0 and the next bin overwrites it
calculateContrastRatio(histogram) ==
  LET lum == histogram.luminance
      totalPixels == Cumulative(lum, HISTOGRAM_BINS - 1)
      cum == [i \in Bins |-> Cumulative(lum, i)]
      stops == {i \in Bins : 10 * cum[i] >= 9 * totalPixels}
      stop == IF stops = {} THEN HISTOGRAM_BINS - 1
              ELSE CHOOSE i \in stops : \A k \in stops : i <= k
      p90 == IF stops = {} THEN 255 ELSE stop
      assigns == {i \in 1..stop : 10 * cum[i] >= totalPixels}
      p10 == IF assigns = {} THEN 0
             ELSE CHOOSE i \in assigns : \A k \in assigns : i <= k
  IN IF p10 > 0 THEN Ratio(p90, p10) ELSE SCALE

windowSize == 5

\* the window centres the loop `for (v = windowSize; v < limit - windowSize; v += windowSize)` visits
WindowCentres(limit) ==
  {v \in windowSize..Max2(limit, windowSize) : v % windowSize = 0 /\ v < limit - windowSize}

\* the mean over the sampled windows of (max - min) / (max + min) (u5); a
\* window whose max + min is not positive is skipped
calculateLocalContrast(img) ==
  LET w == img.width
      P == GrayPlane(img)
      offsets == (-windowSize)..windowSize
      lums(c) == {P[(c[2] + wy) * w + (c[1] + wx) + 1] : wx \in offsets, wy \in offsets}
      min(c) == IF NaN \in lums(c) THEN NaN
                ELSE CHOOSE m \in lums(c) \cup {255000} : \A v \in lums(c) \cup {255000} : m <= v
      max(c) == IF NaN \in lums(c) THEN NaN
                ELSE CHOOSE m \in lums(c) \cup {0} : \A v \in lums(c) \cup {0} : m >= v
      counted == {c \in WindowCentres(w) \X WindowCentres(img.height) : JGt(JAdd(max(c), min(c)), 0)}
      totalLocalContrast == Sum(LAMBDA c : Ratio(max(c) - min(c), max(c) + min(c)), counted)
  IN IF counted # {} THEN totalLocalContrast \div Cardinality(counted) ELSE 0

\* sqrt(sum(count[i] * (i - mean)^2) / totalPixels) / 255 (u5), mean in thousandths
HistogramDeviation(histogram, mean, totalPixels) ==
  IF totalPixels = 0 THEN NaN
  ELSE LET share(i) ==
             \* count[i] * (i - mean)^2 / totalPixels, in c2
             LET sq == Sq(1000 * i - mean)
                 n == histogram[i]
             IN (sq \div totalPixels) * n + ((sq % totalPixels) * n) \div totalPixels
           variance == BinSum(share, 0, HISTOGRAM_BINS - 1)
       IN Ratio(ISqrt(variance * 100), 25500)

calculateContrastMetrics(img, histogram) ==
  LET lum == histogram.luminance
      totalPixels == Cumulative(lum, HISTOGRAM_BINS - 1)
      mean == JQuot(1000 * BinSum(LAMBDA i : i * lum[i], 0, HISTOGRAM_BINS - 1), totalPixels)
      maxLum == findMaxNonZero(lum)
      minLum == findMinNonZero(lum)
  IN [ globalContrast    |-> HistogramDeviation(lum, mean, totalPixels),
       localContrast     |-> calculateLocalContrast(img),
       michelsonContrast |-> JRatio(maxLum - minLum, maxLum + minLum),
       rmsContrast       |-> HistogramDeviation(lum, mean, totalPixels),
       contrastRatio     |-> calculateContrastRatio(histogram) ]

calculateBrightnessMetrics(img, histogram) ==
  LET lum == histogram.luminance
      totalPixels == img.width * img.height
      weightedSum == BinSum(LAMBDA i : i * lum[i], 0, HISTOGRAM_BINS - 1)
      averageBrightness == JRatio(JQuot(1000 * weightedSum, totalPixels), 255000)
      shadows == BinSum(LAMBDA i : lum[i], 0, 85)
      midtones == BinSum(LAMBDA i : lum[i], 86, 170)
      highlights == BinSum(LAMBDA i : lum[i], 171, HISTOGRAM_BINS - 1)
  IN [ averageBrightness |-> averageBrightness,
       medianBrightness  |-> Ratio(calculateMedianFromHistogram(lum), 255),
       brightnessDistribution |->
         [ shadows    |-> JRatio(shadows, totalPixels),
           midtones   |-> JRatio(midtones, totalPixels),
           highlights |-> JRatio(highlights, totalPixels) ],
       exposureLevel |->
         IF JLt(averageBrightness, (3 * SCALE) \div 10) THEN "underexposed"
         ELSE IF JGt(averageBrightness, (7 * SCALE) \div 10) THEN "overexposed"
         ELSE "optimal" ]

calculateDynamicRange(histogram) ==
  Ratio(findMaxNonZero(histogram.luminance) - findMinNonZero(histogram.luminance), 255)

\* a slip: the clipped shares are scaled to percentages (x 100), as their
\* names say, while the thresholds stay fractions
analyzeExposurePercent(histogram, brightness) ==
  LET lum == histogram.luminance
      totalPixels == Cumulative(lum, HISTOGRAM_BINS - 1)
      clippedShadowsPercent ==
        JScale(JRatio(BinSum(LAMBDA i : lum[i], 0, 10), totalPixels), 100, 1)
      clippedHighlightsPercent ==
        JScale(JRatio(BinSum(LAMBDA i : lum[i], 245, HISTOGRAM_BINS - 1), totalPixels), 100, 1)
  IN [ clippedShadows    |-> clippedShadowsPercent,
       clippedHighlights |-> clippedHighlightsPercent,
       optimalExposure   |-> JLt(clippedShadowsPercent, (2 * SCALE) \div 100)
                             /\ JLt(clippedHighlightsPercent, (2 * SCALE) \div 100),
       recommendedAdjustment |->
         IF brightness.exposureLevel = "underexposed" THEN "Increase exposure by +0.5 to +1.5 stops"
         ELSE IF brightness.exposureLevel = "overexposed" THEN "Decrease exposure by -0.5 to -1.5 stops"
         ELSE IF JGt(clippedShadowsPercent, (5 * SCALE) \div 100) THEN "Lift shadows to recover detail"
         ELSE IF JGt(clippedHighlightsPercent, (5 * SCALE) \div 100) THEN "Lower highlights to recover detail"
         ELSE "No adjustment needed" ]

\* a slip: the highlight test comes before the shadow test
analyzeExposureHighlightsFirst(histogram, brightness) ==
  LET lum == histogram.luminance
      totalPixels == Cumulative(lum, HISTOGRAM_BINS - 1)
      clippedShadowsPercent == JRatio(BinSum(LAMBDA i : lum[i], 0, 10), totalPixels)
      clippedHighlightsPercent == JRatio(BinSum(LAMBDA i : lum[i], 245, HISTOGRAM_BINS - 1), totalPixels)
  IN [ clippedShadows    |-> clippedShadowsPercent,
       clippedHighlights |-> clippedHighlightsPercent,
       optimalExposure   |-> JLt(clippedShadowsPercent, (2 * SCALE) \div 100)
                             /\ JLt(clippedHighlightsPercent, (2 * SCALE) \div 100),
       recommendedAdjustment |->
         IF brightness.exposureLevel = "underexposed" THEN "Increase exposure by +0.5 to +1.5 stops"
         ELSE IF brightness.exposureLevel = "overexposed" THEN "Decrease exposure by -0.5 to -1.5 stops"
         ELSE IF JGt(clippedHighlightsPercent, (5 * SCALE) \div 100) THEN "Lower highlights to recover detail"
         ELSE IF JGt(clippedShadowsPercent, (5 * SCALE) \div 100) THEN "Lift shadows to recover detail"
         ELSE "No adjustment needed" ]

analyzeExposure(histogram, brightness) ==
  LET lum == histogram.luminance
      totalPixels == Cumulative(lum, HISTOGRAM_BINS - 1)
      clippedShadowsPercent == JRatio(BinSum(LAMBDA i : lum[i], 0, 10), totalPixels)
      clippedHighlightsPercent == JRatio(BinSum(LAMBDA i : lum[i], 245, HISTOGRAM_BINS - 1), totalPixels)
  IN [ clippedShadows    |-> clippedShadowsPercent,
       clippedHighlights |-> clippedHighlightsPercent,
       optimalExposure   |-> JLt(clippedShadowsPercent, (2 * SCALE) \div 100)
                             /\ JLt(clippedHighlightsPercent, (2 * SCALE) \div 100),
       recommendedAdjustment |->
         IF brightness.exposureLevel = "underexposed" THEN "Increase exposure by +0.5 to +1.5 stops"
         ELSE IF brightness.exposureLevel = "overexposed" THEN "Decrease exposure by -0.5 to -1.5 stops"
         ELSE IF JGt(clippedShadowsPercent, (5 * SCALE) \div 100) THEN "Lift shadows to recover detail"
         ELSE IF JGt(clippedHighlightsPercent, (5 * SCALE) \div 100) THEN "Lower highlights to recover detail"
         ELSE "No adjustment needed" ]

analyzeContrastBrightness(img) ==
  LET histogram == calculateHistogram(img)
      brightness == calculateBrightnessMetrics(img, histogram)
  IN [ contrast         |-> calculateContrastMetrics(img, histogram),
       brightness       |-> brightness,
       histogram        |-> histogram,
       dynamicRange     |-> calculateDynamicRange(histogram),
       exposureAnalysis |-> analyzeExposure(histogram, brightness) ]

(***************************************************************************)
(* AIQualityClassifier.                                                    *)
(***************************************************************************)
\* n thousandths as a score (u5)
Milli(n) == n * (SCALE \div 1000)

\* Math.max(0, Math.min(1, score))
Clamp01(score) == JMax(0, JMin(SCALE, score))

modelWeights ==
  [ sharpness   |-> [weight |-> Milli(250), bias |-> Milli(100)],
    contrast    |-> [weight |-> Milli(200), bias |-> Milli(50)],
    brightness  |-> [weight |-> Milli(150), bias |-> 0],
    saturation  |-> [weight |-> Milli(100), bias |-> 0],
    noise       |-> [weight |-> -Milli(150), bias |-> 0],
    composition |-> [weight |-> Milli(150), bias |-> Milli(50)] ]

\* a * w for a score a and a weight w (u5) that is a whole number of thousandths
Weighted(a, w) == JScale(a, w \div (SCALE \div 1000), 1000)

\* The values Math.random() is drawn from: the two ends of [0, 1).  Every
\* score below is monotone in every draw, so the ends give its extremes.
MathRandom == {0, SCALE - 1}

\* the placeholder estimators, as functions of their Math.random() draw
analyzeRuleOfThirds(random) == JScale(random, 3, 10) + Milli(200)

analyzeColorDistribution(random) == JScale(random, 3, 10) + Milli(200)

analyzeEdgeDistribution(random) == JScale(random, 3, 10) + Milli(200)

analyzeBalance(random) == JScale(random, 3, 10) + Milli(200)

analyzeSymmetry(random) == JScale(random, 5, 10) + Milli(250)

analyzeLeadingLines(random) == JScale(random, 5, 10) + Milli(250)

analyzeDepth(random) == JScale(random, 5, 10) + Milli(250)

\* the draws one classifyImage call makes, in call order
Draws == [ ruleOfThirds : MathRandom, colorDistribution : MathRandom,
           edgeDistribution : MathRandom, balance : MathRandom,
           symmetry : MathRandom, leadingLines : MathRandom, depth : MathRandom ]

\* a slip: the score starts from 0 and not from 0.5
calculateAestheticScoreNoBase(draws) ==
  LET score == 0
               + JScale(analyzeRuleOfThirds(draws.ruleOfThirds), 3, 10)
               + JScale(analyzeColorDistribution(draws.colorDistribution), 2, 10)
               + JScale(analyzeEdgeDistribution(draws.edgeDistribution), 2, 10)
               + JScale(analyzeBalance(draws.balance), 3, 10)
  IN Clamp01(score)

calculateAestheticScore(draws) ==
  LET score == Milli(500)
               + JScale(analyzeRuleOfThirds(draws.ruleOfThirds), 3, 10)
               + JScale(analyzeColorDistribution(draws.colorDistribution), 2, 10)
               + JScale(analyzeEdgeDistribution(draws.edgeDistribution), 2, 10)
               + JScale(analyzeBalance(draws.balance), 3, 10)
  IN Clamp01(score)

\* a slip: the noise weight, which is negative, is applied without Math.abs
calculateTechnicalScoreSigned(basicMetrics, blur, contrastBrightnessAnalysis) ==
  LET w == modelWeights
      brightnessOptimal == JSub(SCALE, JScale(JAbs(JSub(basicMetrics.brightness, Milli(500))), 2, 1))
      base == JAdd(JAdd(Weighted(basicMetrics.sharpness, w.sharpness.weight), w.sharpness.bias),
              JAdd(JAdd(Weighted(basicMetrics.contrast, w.contrast.weight), w.contrast.bias),
              JAdd(JAdd(Weighted(brightnessOptimal, w.brightness.weight), w.brightness.bias),
              JAdd(JAdd(Weighted(basicMetrics.saturation, w.saturation.weight), w.saturation.bias),
                   JAdd(JNeg(Weighted(JSub(SCALE, basicMetrics.noise), Abs(w.noise.weight))), w.noise.bias)))))
      sharpBonus == IF blur # undefined /\ JGt(blur.overallBlurScore, Milli(700))
                    THEN Milli(100) ELSE 0
      exposureBonus == IF contrastBrightnessAnalysis # undefined
                          /\ contrastBrightnessAnalysis.exposureAnalysis.optimalExposure
                       THEN Milli(100) ELSE 0
  IN Clamp01(JAdd(JAdd(base, sharpBonus), exposureBonus))

calculateTechnicalScore(basicMetrics, blur, contrastBrightnessAnalysis) ==
  LET w == modelWeights
      brightnessOptimal == JSub(SCALE, JScale(JAbs(JSub(basicMetrics.brightness, Milli(500))), 2, 1))
      base == JAdd(JAdd(Weighted(basicMetrics.sharpness, w.sharpness.weight), w.sharpness.bias),
              JAdd(JAdd(Weighted(basicMetrics.contrast, w.contrast.weight), w.contrast.bias),
              JAdd(JAdd(Weighted(brightnessOptimal, w.brightness.weight), w.brightness.bias),
              JAdd(JAdd(Weighted(basicMetrics.saturation, w.saturation.weight), w.saturation.bias),
                   JAdd(Weighted(JSub(SCALE, basicMetrics.noise), Abs(w.noise.weight)), w.noise.bias)))))
      sharpBonus == IF blur # undefined /\ JGt(blur.overallBlurScore, Milli(700))
                    THEN Milli(100) ELSE 0
      exposureBonus == IF contrastBrightnessAnalysis # undefined
                          /\ contrastBrightnessAnalysis.exposureAnalysis.optimalExposure
                       THEN Milli(100) ELSE 0
  IN Clamp01(JAdd(JAdd(base, sharpBonus), exposureBonus))

\* a slip: the three sub-scores are summed and not averaged
calculateCompositionScoreSum(draws) ==
  analyzeSymmetry(draws.symmetry) + analyzeLeadingLines(draws.leadingLines)
    + analyzeDepth(draws.depth)

calculateCompositionScore(draws) ==
  (analyzeSymmetry(draws.symmetry) + analyzeLeadingLines(draws.leadingLines)
     + analyzeDepth(draws.depth)) \div 3

\* a slip: professionalGrade looks at the aesthetic score alone
extractImageFeaturesAestheticGrade(draws, basicMetrics, blur, contrastBrightnessAnalysis) ==
  LET aestheticScore == calculateAestheticScore(draws)
      technicalScore == calculateTechnicalScore(basicMetrics, blur, contrastBrightnessAnalysis)
  IN [ aestheticScore    |-> aestheticScore,
       technicalScore    |-> technicalScore,
       compositionScore  |-> calculateCompositionScore(draws),
       professionalGrade |-> JGt(aestheticScore, Milli(700)) ]

extractImageFeatures(draws, basicMetrics, blur, contrastBrightnessAnalysis) ==
  LET aestheticScore == calculateAestheticScore(draws)
      technicalScore == calculateTechnicalScore(basicMetrics, blur, contrastBrightnessAnalysis)
  IN [ aestheticScore    |-> aestheticScore,
       technicalScore    |-> technicalScore,
       compositionScore  |-> calculateCompositionScore(draws),
       professionalGrade |-> JGt(technicalScore, Milli(800)) /\ JGt(aestheticScore, Milli(700)) ]

\* the stores of calculateColorHarmony: colorCounts.set on a new Map, once
\* per sampled pixel (every 10th)
calculateColorHarmonyWrites(img) == IF Len(img.data) > 0 THEN {"colorCounts"} ELSE {}

\* technicalScore * 0.4 + aestheticScore * 0.3 + compositionScore * 0.3
OverallScore(features) ==
  JAdd(JAdd(JScale(features.technicalScore, 4, 10), JScale(features.aestheticScore, 3, 10)),
       JScale(features.compositionScore, 3, 10))

\* a slip: the thresholds are exclusive (> for >=)
predictQualityClassStrict(features, basicMetrics) ==
  LET overallScore == OverallScore(features)
  IN IF JGt(overallScore, Milli(900)) /\ features.professionalGrade THEN "excellent"
     ELSE IF JGt(overallScore, Milli(750)) THEN "good"
     ELSE IF JGt(overallScore, Milli(500)) THEN "fair"
     ELSE IF JGt(overallScore, Milli(250)) THEN "poor"
     ELSE "very_poor"

predictQualityClass(features, basicMetrics) ==
  LET overallScore == OverallScore(features)
  IN IF JGe(overallScore, Milli(900)) /\ features.professionalGrade THEN "excellent"
     ELSE IF JGe(overallScore, Milli(750)) THEN "good"
     ELSE IF JGe(overallScore, Milli(500)) THEN "fair"
     ELSE IF JGe(overallScore, Milli(250)) THEN "poor"
     ELSE "very_poor"

calculateClassificationConfidence(features, basicMetrics) ==
  LET overallScore == OverallScore(features)
      extreme == IF JGt(overallScore, Milli(800)) \/ JLt(overallScore, Milli(300))
                 THEN Milli(100) ELSE 0
      borderline == IF JGt(overallScore, Milli(450)) /\ JLt(overallScore, Milli(550))
                    THEN Milli(200) ELSE 0
  IN JMax(Milli(300), JMin(Milli(950), Milli(800) + extreme - borderline))

\* priorityOrder = { high: 3, medium: 2, low: 1 }
priorityOrder(priority) ==
  CASE priority = "high" -> 3
    [] priority = "medium" -> 2
    [] priority = "low" -> 1

\* the comparator of the sort: priorityOrder[b.priority] - priorityOrder[a.priority]
ComparePriority(a, b) == priorityOrder(b.priority) - priorityOrder(a.priority)

\* Array.prototype.sort is stable (ECMAScript 2019): an element is placed
\* behind every element already placed that the comparator does not put
\* behind it
RECURSIVE InsertByPriority(_, _)
InsertByPriority(sorted, r) ==
  IF sorted = << >> THEN <<r>>
  ELSE IF ComparePriority(sorted[Len(sorted)], r) <= 0 THEN Append(sorted, r)
  ELSE Append(InsertByPriority(SubSeq(sorted, 1, Len(sorted) - 1), r), sorted[Len(sorted)])

RECURSIVE SortByPriority(_)
SortByPriority(recs) ==
  IF recs = << >> THEN << >>
  ELSE InsertByPriority(SortByPriority(SubSeq(recs, 1, Len(recs) - 1)), recs[Len(recs)])

\* the recommendation pushed when its rule fires
RecommendationIf(test, recommendation) == IF test THEN <<recommendation>> ELSE << >>

\* the pushes of generateRecommendations, in order
RecommendationsPushed(features, basicMetrics, blur, contrastBrightnessAnalysis) ==
  RecommendationIf(JLt(basicMetrics.sharpness, Milli(600)),
    [ category |-> "sharpness",
      priority |-> IF JLt(basicMetrics.sharpness, Milli(300)) THEN "high" ELSE "medium",
      suggestion |-> "Apply unsharp mask or increase camera stability to improve sharpness",
      expectedImprovement |-> Milli(200) ])
  \o RecommendationIf(contrastBrightnessAnalysis # undefined
                       /\ ~contrastBrightnessAnalysis.exposureAnalysis.optimalExposure,
    [ category |-> "exposure",
      priority |-> IF JGt(contrastBrightnessAnalysis.exposureAnalysis.clippedShadows, Milli(100))
                      \/ JGt(contrastBrightnessAnalysis.exposureAnalysis.clippedHighlights, Milli(100))
                   THEN "high" ELSE "medium",
      suggestion |-> contrastBrightnessAnalysis.exposureAnalysis.recommendedAdjustment,
      expectedImprovement |-> Milli(150) ])
  \o RecommendationIf(JLt(features.colorHarmony, Milli(500)),
    [ category |-> "color",
      priority |-> "medium",
      suggestion |-> "Adjust color balance or consider selective color corrections for better harmony",
      expectedImprovement |-> Milli(100) ])
  \o RecommendationIf(JGt(basicMetrics.noise, Milli(400)),
    [ category |-> "noise",
      priority |-> IF JGt(basicMetrics.noise, Milli(700)) THEN "high" ELSE "medium",
      suggestion |-> "Apply noise reduction or use lower ISO settings in future captures",
      expectedImprovement |-> Milli(150) ])
  \o RecommendationIf(JLt(features.compositionScore, Milli(500)),
    [ category |-> "composition",
      priority |-> "low",
      suggestion |-> "Consider cropping to improve composition using rule of thirds or leading lines",
      expectedImprovement |-> Milli(100) ])

\* a slip: the list is returned as pushed, without the sort
generateRecommendationsUnsorted(features, basicMetrics, blur, contrastBrightnessAnalysis) ==
  RecommendationsPushed(features, basicMetrics, blur, contrastBrightnessAnalysis)

generateRecommendations(features, basicMetrics, blur, contrastBrightnessAnalysis) ==
  SortByPriority(RecommendationsPushed(features, basicMetrics, blur, contrastBrightnessAnalysis))

\* the uses pushed for a gate that holds
UsesIf(gate, uses) == IF gate THEN uses ELSE << >>

\* a slip: the web entries are pushed first
assessTechnicalQualityWebFirst(features, basicMetrics) ==
  LET suitableForPrint == JGt(features.technicalScore, Milli(700)) /\ JGt(basicMetrics.sharpness, Milli(600))
      webOptimized == JGt(features.technicalScore, Milli(500))
      professionalUse == features.professionalGrade /\ JGt(features.technicalScore, Milli(800))
      archivalQuality == JGt(features.technicalScore, Milli(850)) /\ JLt(basicMetrics.noise, Milli(200))
      uses == UsesIf(webOptimized, <<"Web display", "Social media">>)
              \o UsesIf(archivalQuality, <<"Archival storage", "Fine art printing">>)
              \o UsesIf(professionalUse, <<"Professional photography", "Commercial use">>)
              \o UsesIf(suitableForPrint, <<"High-quality printing", "Large format display">>)
  IN [ suitableForPrint |-> suitableForPrint,
       webOptimized     |-> webOptimized,
       professionalUse  |-> professionalUse,
       archivalQuality  |-> archivalQuality,
       recommendedUses  |-> IF Len(uses) = 0
                            THEN <<"Thumbnail use", "Low-resolution display">> ELSE uses ]

assessTechnicalQuality(features, basicMetrics) ==
  LET suitableForPrint == JGt(features.technicalScore, Milli(700)) /\ JGt(basicMetrics.sharpness, Milli(600))
      webOptimized == JGt(features.technicalScore, Milli(500))
      professionalUse == features.professionalGrade /\ JGt(features.technicalScore, Milli(800))
      archivalQuality == JGt(features.technicalScore, Milli(850)) /\ JLt(basicMetrics.noise, Milli(200))
      uses == UsesIf(archivalQuality, <<"Archival storage", "Fine art printing">>)
              \o UsesIf(professionalUse, <<"Professional photography", "Commercial use">>)
              \o UsesIf(suitableForPrint, <<"High-quality printing", "Large format display">>)
              \o UsesIf(webOptimized, <<"Web display", "Social media">>)
  IN [ suitableForPrint |-> suitableForPrint,
       webOptimized     |-> webOptimized,
       professionalUse  |-> professionalUse,
       archivalQuality  |-> archivalQuality,
       recommendedUses  |-> IF Len(uses) = 0
                            THEN <<"Thumbnail use", "Low-resolution display">> ELSE uses ]

\* the classification of one buffer under the given placeholder draws
classifyImage(draws, basicMetrics, blur, contrastBrightnessAnalysis) ==
  LET features == extractImageFeatures(draws, basicMetrics, blur, contrastBrightnessAnalysis)
  IN [ qualityClass        |-> predictQualityClass(features, basicMetrics),
       confidence          |-> calculateClassificationConfidence(features, basicMetrics),
       features            |-> features,
       technicalAssessment |-> assessTechnicalQuality(features, basicMetrics) ]

(***************************************************************************)
(* The state: one ImageAnalyzer, its canvas, and the analyzeImage call in  *)
(* progress with the locals of its onload handler.                         *)
(***************************************************************************)
VARIABLES
  canvas,            \* this.canvas: [width, height, pixels], pixels a picture's number (0: blank)
  pc,                \* "idle", "loading", "awaiting", "resolved", "rejected"; "core" under SpecCore
  src,               \* img.src of the call in progress
  imageData,         \* the buffer under analysis, by its number in Buffers (0: none)
  metrics,           \* const metrics
  blurAnalysis,      \* const blurAnalysis
  contrastBrightnessAnalysisResult,
  aiClassification,  \* the value the awaited classifyImage promise resolves to
  result,            \* what the promise resolved to
  error,             \* what the promise rejected with
  last,              \* history: the url of the latest call that resolved before this one, and
                     \* its result's fields other than aiClassification
  calls,             \* history: the number of calls made so far
  outOfBounds,       \* history: an engine has read an index outside the buffer's data
  written,           \* history: the arrays the engines have stored into during the call;
                     \* "data" is the data array of the buffer they were given
  inflight,          \* the analyzeImage calls in progress on the one analyzer when calls
                     \* overlap, each with its img and the locals of its onload handler
  page               \* the page component: its state and the handleAnalyze run in progress

vars == <<canvas, pc, src, imageData, metrics, blurAnalysis, contrastBrightnessAnalysisResult,
          aiClassification, result, error, last, calls, outOfBounds, written, inflight, page>>

(***************************************************************************)
(* ImageAnalyzer: issues, overall quality and confidence.                  *)
(***************************************************************************)
\* s.charAt(0).toUpperCase() + s.slice(1)
Capitalize(s) ==
  CASE s = "motion" -> "Motion"
    [] s = "focus" -> "Focus"
    [] s = "gaussian" -> "Gaussian"
    [] s = "none" -> "None"
    [] s = "underexposed" -> "Underexposed"
    [] s = "overexposed" -> "Overexposed"
    [] s = "optimal" -> "Optimal"

\* Math.round(score * 100)
Percent(score) ==
  IF ~Finite(score) THEN score
  ELSE IF score >= 0 THEN (score + (SCALE \div 200)) \div (SCALE \div 100)
  ELSE -((-score + (SCALE \div 200) - 1) \div (SCALE \div 100))

\* the issues pushed when the test holds
IssueIf(test, issue) == IF test THEN <<issue>> ELSE << >>

\* a slip: a blur score of exactly 0.5 raises the issue too (<= for <)
BlurIssuesInclusive(b) ==
  IF b = undefined THEN << >>
  ELSE LET s == b.overallBlurScore
       IN IssueIf(JLt(s, Milli(500)) \/ s = Milli(500),
            [ type |-> "blur",
              severity |-> IF JLt(s, Milli(200)) THEN "high"
                           ELSE IF JLt(s, Milli(350)) THEN "medium" ELSE "low",
              score |-> JSub(SCALE, s),
              description |-> <<Capitalize(b.blurType), " blur detected with ",
                                Len(b.blurRegions), " affected regions">> ])

\* the blur issue; a description is kept as the tuple of the template's pieces
BlurIssues(b) ==
  IF b = undefined THEN << >>
  ELSE LET s == b.overallBlurScore
       IN IssueIf(JLt(s, Milli(500)),
            [ type |-> "blur",
              severity |-> IF JLt(s, Milli(200)) THEN "high"
                           ELSE IF JLt(s, Milli(350)) THEN "medium" ELSE "low",
              score |-> JSub(SCALE, s),
              description |-> <<Capitalize(b.blurType), " blur detected with ",
                                Len(b.blurRegions), " affected regions">> ])

\* a slip: the brightness issue is high only when shadows and highlights are
\* both clipped (&& for ||)
AdvancedIssuesBothClipped(cb) ==
  LET avgContrast == JQuot(JAdd(cb.contrast.globalContrast, cb.contrast.localContrast), 2)
      avgBrightness == cb.brightness.averageBrightness
      clippedShadows == cb.exposureAnalysis.clippedShadows
      clippedHighlights == cb.exposureAnalysis.clippedHighlights
  IN IssueIf(JLt(avgContrast, Milli(300)),
       [ type |-> "contrast",
         severity |-> IF JLt(avgContrast, Milli(100)) THEN "high"
                      ELSE IF JLt(avgContrast, Milli(200)) THEN "medium" ELSE "low",
         score |-> JSub(SCALE, avgContrast),
         description |-> <<"Low contrast detected (Global: ", Percent(cb.contrast.globalContrast),
                           "%, Local: ", Percent(cb.contrast.localContrast), "%)">> ])
     \o IssueIf(cb.brightness.exposureLevel # "optimal",
       [ type |-> "brightness",
         severity |-> IF JGt(clippedShadows, Milli(100)) /\ JGt(clippedHighlights, Milli(100))
                      THEN "high" ELSE "medium",
         score |-> IF cb.brightness.exposureLevel = "underexposed"
                   THEN JSub(SCALE, JScale(avgBrightness, 2, 1))
                   ELSE JScale(JSub(avgBrightness, Milli(500)), 2, 1),
         description |-> <<Capitalize(cb.brightness.exposureLevel), " image with ",
                           Percent(JAdd(clippedShadows, clippedHighlights)), "% clipped pixels">> ])

\* the contrast and brightness issues from the contrast-brightness analysis
AdvancedIssues(cb) ==
  LET avgContrast == JQuot(JAdd(cb.contrast.globalContrast, cb.contrast.localContrast), 2)
      avgBrightness == cb.brightness.averageBrightness
      clippedShadows == cb.exposureAnalysis.clippedShadows
      clippedHighlights == cb.exposureAnalysis.clippedHighlights
  IN IssueIf(JLt(avgContrast, Milli(300)),
       [ type |-> "contrast",
         severity |-> IF JLt(avgContrast, Milli(100)) THEN "high"
                      ELSE IF JLt(avgContrast, Milli(200)) THEN "medium" ELSE "low",
         score |-> JSub(SCALE, avgContrast),
         description |-> <<"Low contrast detected (Global: ", Percent(cb.contrast.globalContrast),
                           "%, Local: ", Percent(cb.contrast.localContrast), "%)">> ])
     \o IssueIf(cb.brightness.exposureLevel # "optimal",
       [ type |-> "brightness",
         severity |-> IF JGt(clippedShadows, Milli(100)) \/ JGt(clippedHighlights, Milli(100))
                      THEN "high" ELSE "medium",
         score |-> IF cb.brightness.exposureLevel = "underexposed"
                   THEN JSub(SCALE, JScale(avgBrightness, 2, 1))
                   ELSE JScale(JSub(avgBrightness, Milli(500)), 2, 1),
         description |-> <<Capitalize(cb.brightness.exposureLevel), " image with ",
                           Percent(JAdd(clippedShadows, clippedHighlights)), "% clipped pixels">> ])

\* the contrast and brightness issues from the basic metrics
BasicIssues(m) ==
  LET isUnderexposed == JLt(m.brightness, Milli(200))
  IN IssueIf(JLt(m.contrast, Milli(300)),
       [ type |-> "contrast",
         severity |-> IF JLt(m.contrast, Milli(100)) THEN "high"
                      ELSE IF JLt(m.contrast, Milli(200)) THEN "medium" ELSE "low",
         score |-> JSub(SCALE, m.contrast),
         description |-> <<"Image has low contrast and may appear flat">> ])
     \o IssueIf(JLt(m.brightness, Milli(200)) \/ JGt(m.brightness, Milli(800)),
       [ type |-> "brightness",
         severity |-> IF JLt(m.brightness, Milli(100)) \/ JGt(m.brightness, Milli(900))
                      THEN "high"
                      ELSE IF JLt(m.brightness, Milli(150)) \/ JGt(m.brightness, Milli(850))
                      THEN "medium" ELSE "low",
         score |-> IF isUnderexposed THEN JSub(SCALE, JScale(m.brightness, 5, 1))
                   ELSE JScale(JSub(m.brightness, Milli(800)), 5, 1),
         description |-> <<IF isUnderexposed THEN "Image appears underexposed"
                           ELSE "Image appears overexposed">> ])

\* the noise issue
NoiseIssues(m) ==
  IssueIf(JGt(m.noise, Milli(400)),
    [ type |-> "noise",
      severity |-> IF JGt(m.noise, Milli(700)) THEN "high"
                   ELSE IF JGt(m.noise, Milli(550)) THEN "medium" ELSE "low",
      score |-> m.noise,
      description |-> <<"Image contains visible noise or grain">> ])

\* a slip: the issues array is a field of the analyzer that is never emptied,
\* so a call's issues are appended to those of the call before
detectIssuesAppending(m, b, cb) ==
  (IF last = undefined THEN << >> ELSE last.issues)
    \o BlurIssues(b)
    \o (IF cb # undefined THEN AdvancedIssues(cb) ELSE BasicIssues(m))
    \o NoiseIssues(m)

\* a slip: the basic tests are not in an else branch and run after the
\* advanced ones
detectIssuesBothPaths(m, b, cb) ==
  BlurIssues(b)
    \o (IF cb # undefined THEN AdvancedIssues(cb) ELSE << >>)
    \o BasicIssues(m)
    \o NoiseIssues(m)

\* const issues = []; the pushes in order; return issues
detectIssues(m, b, cb) ==
  BlurIssues(b)
    \o (IF cb # undefined THEN AdvancedIssues(cb) ELSE BasicIssues(m))
    \o NoiseIssues(m)

\* issues.filter((issue) => issue.severity === severity).length
SeverityCount(issues, severity) == Cardinality({i \in DOMAIN issues : issues[i].severity = severity})

\* a slip: two medium issues already make the image Poor (>= 2 for > 2)
determineOverallQualityStrict(m, issues, ai) ==
  LET highSeverityIssues == SeverityCount(issues, "high")
      mediumSeverityIssues == SeverityCount(issues, "medium")
      fallback == IF highSeverityIssues > 0 \/ mediumSeverityIssues >= 2 THEN "Poor"
                  ELSE IF mediumSeverityIssues > 0 \/ Len(issues) > 2 THEN "Fair"
                  ELSE "Good"
  IN IF ai = undefined THEN fallback
     ELSE CASE ai.qualityClass \in {"excellent", "good"} -> "Good"
            [] ai.qualityClass = "fair" -> "Fair"
            [] ai.qualityClass \in {"poor", "very_poor"} -> "Poor"
            [] OTHER -> fallback

determineOverallQuality(m, issues, ai) ==
  LET highSeverityIssues == SeverityCount(issues, "high")
      mediumSeverityIssues == SeverityCount(issues, "medium")
      fallback == IF highSeverityIssues > 0 \/ mediumSeverityIssues > 2 THEN "Poor"
                  ELSE IF mediumSeverityIssues > 0 \/ Len(issues) > 2 THEN "Fair"
                  ELSE "Good"
  IN IF ai = undefined THEN fallback
     ELSE CASE ai.qualityClass \in {"excellent", "good"} -> "Good"
            [] ai.qualityClass = "fair" -> "Fair"
            [] ai.qualityClass \in {"poor", "very_poor"} -> "Poor"
            [] OTHER -> fallback

calculateConfidence(m, issues, ai) ==
  LET useAI == ai # undefined
               /\ ai.confidence # 0 /\ ai.confidence # NaN
      c0 == IF useAI THEN JQuot(JAdd(Milli(800), ai.confidence), 2) ELSE Milli(800)
      c1 == IF JLt(m.brightness, Milli(100)) \/ JGt(m.brightness, Milli(900))
            THEN JSub(c0, Milli(100)) ELSE c0
      c2 == IF JLt(m.contrast, Milli(100)) THEN JSub(c1, Milli(100)) ELSE c1
      c3 == IF JLt(m.sharpness, Milli(50)) THEN JSub(c2, Milli(100)) ELSE c2
      c4 == IF Len(issues) > 3 THEN JSub(c3, Milli(50)) ELSE c3
  IN JMax(Milli(300), JMin(Milli(950), c4))

(***************************************************************************)
(* The inputs.  Buffers lists the pixel buffers the engines are run on:    *)
(* first the pictures an image URL can decode to, then buffers whose       *)
(* length does not match their dimensions, which only a direct caller of   *)
(* the engines can pass.  The state holds a buffer by its number.          *)
(***************************************************************************)
black == <<0, 0, 0>>
white == <<255, 255, 255>>
gray == <<128, 128, 128>>

Pictures ==
  << Solid(1, 1, gray), Solid(2, 5, white), Solid(3, 3, black), Solid(3, 3, <<200, 100, 50>>),
     Stripes(4, 4, black, white), Ramp(5, 4, 100, 3), Solid(32, 32, white),
     Solid(33, 33, gray), Ramp(40, 34, 10, 6), Solid(64, 64, gray),
     Halves(64, 64, black, white) >>

Malformed ==
  << Reshaped(Solid(1, 1, gray), 3, 3, 4), Reshaped(Solid(1, 1, gray), 0, 0, 0),
     Reshaped(Solid(3, 3, gray), 1, 1, 3), Reshaped(Solid(4, 4, white), 4, 4, 36),
     Reshaped(Solid(3, 3, black), 2, 2, 36) >>

Buffers == Pictures \o Malformed

\* the engines' results, tabulated once over the buffers
MetricsOf == SubSeq([k \in 1..Len(Buffers) |-> calculateMetrics(Buffers[k])], 1, Len(Buffers))

BlurOf == SubSeq([k \in 1..Len(Buffers) |-> analyzeBlur(Buffers[k])], 1, Len(Buffers))

ContrastBrightnessOf ==
  SubSeq([k \in 1..Len(Buffers) |-> analyzeContrastBrightness(Buffers[k])], 1, Len(Buffers))

\* the arrays the engines store into, tabulated once over the buffers;
\* calculateMetrics stores into none
AnalyzeBlurWrites ==
  SubSeq([k \in 1..Len(Buffers) |->
            detectBlurRegionsWrites(Buffers[k], Buffers[k].width, Buffers[k].height)],
         1, Len(Buffers))

AnalyzeContrastBrightnessWrites ==
  SubSeq([k \in 1..Len(Buffers) |-> calculateHistogramWrites(Buffers[k])], 1, Len(Buffers))

ClassifyImageWrites ==
  SubSeq([k \in 1..Len(Buffers) |-> calculateColorHarmonyWrites(Buffers[k])], 1, Len(Buffers))

(***************************************************************************)
(* ImageAnalyzer.analyzeImage on one analyzer, one call at a time.         *)
(* An image URL is the number of the picture it decodes to, or BrokenUrl.  *)
(***************************************************************************)
MaxCalls == 2

BrokenUrl == 0

Urls == (1..Len(Pictures)) \cup {BrokenUrl}

\* the constructor: a fresh canvas element is 300 x 150 and blank
Init ==
  /\ canvas = [width |-> 300, height |-> 150, pixels |-> 0]
  /\ pc = "idle"
  /\ src = BrokenUrl
  /\ imageData = 0
  /\ metrics = undefined
  /\ blurAnalysis = undefined
  /\ contrastBrightnessAnalysisResult = undefined
  /\ aiClassification = undefined
  /\ result = undefined
  /\ error = undefined
  /\ last = undefined
  /\ calls = 0
  /\ outOfBounds = FALSE
  /\ written = {}
  /\ inflight = undefined
  /\ page = undefined

\* canvas.width = img.width; canvas.height = img.height: resizing clears the canvas
Resize(cv, img) == [width |-> img.width, height |-> img.height, pixels |-> 0]

\* ctx.drawImage(img, 0, 0) of picture k on a canvas of the picture's size
drawImage(cv, k) ==
  IF cv.width = Pictures[k].width /\ cv.height = Pictures[k].height
  THEN [cv EXCEPT !.pixels = k] ELSE cv

\* ctx.getImageData(0, 0, img.width, img.height): the canvas's pixels
getImageData(cv) == cv.pixels

\* what the history keeps of a call's url and result
Remembered(url, r) ==
  [ url |-> url, overallQuality |-> r.overallQuality, confidence |-> r.confidence,
    issues |-> r.issues, metrics |-> r.metrics, blurAnalysis |-> r.blurAnalysis,
    contrastBrightnessAnalysis |-> r.contrastBrightnessAnalysis ]

\* analyzeImage(imageUrl): a new Image is created and its src set
AnalyzeImage(imageUrl) ==
  /\ pc \in {"idle", "resolved", "rejected"}
  /\ calls < MaxCalls
  /\ calls' = calls + 1
  /\ last' = IF pc = "resolved" THEN Remembered(src, result) ELSE last
  /\ src' = imageUrl
  /\ pc' = "loading"
  /\ imageData' = 0
  /\ metrics' = undefined
  /\ blurAnalysis' = undefined
  /\ contrastBrightnessAnalysisResult' = undefined
  /\ aiClassification' = undefined
  /\ result' = undefined
  /\ error' = undefined
  /\ written' = {}
  /\ UNCHANGED <<canvas, outOfBounds, inflight, page>>

\* img.onload up to the await: the picture is drawn, read back and analysed;
\* classifyImage runs to its end with the draws of its placeholder estimators
ImgOnLoad ==
  /\ pc = "loading"
  /\ src # BrokenUrl
  /\ canvas' = drawImage(Resize(canvas, Pictures[src]), src)
  /\ imageData' = getImageData(canvas')
  /\ metrics' = MetricsOf[imageData']
  /\ blurAnalysis' = BlurOf[imageData']
  /\ contrastBrightnessAnalysisResult' = ContrastBrightnessOf[imageData']
  /\ \E draws \in Draws :
       aiClassification' = classifyImage(draws, metrics', blurAnalysis', contrastBrightnessAnalysisResult')
  /\ written' = written \cup AnalyzeBlurWrites[imageData']
                        \cup AnalyzeContrastBrightnessWrites[imageData']
                        \cup ClassifyImageWrites[imageData']
  /\ pc' = "awaiting"
  /\ UNCHANGED <<src, result, error, last, calls, outOfBounds, inflight, page>>

\* img.onload after the await: issues, overall quality, confidence, resolve
Resume ==
  /\ pc = "awaiting"
  /\ LET issues == detectIssues(metrics, blurAnalysis, contrastBrightnessAnalysisResult)
     IN result' = [ overallQuality |-> determineOverallQuality(metrics, issues, aiClassification),
                    confidence |-> calculateConfidence(metrics, issues, aiClassification),
                    issues |-> issues,
                    metrics |-> metrics,
                    blurAnalysis |-> blurAnalysis,
                    contrastBrightnessAnalysis |-> contrastBrightnessAnalysisResult,
                    aiClassification |-> aiClassification ]
  /\ pc' = "resolved"
  /\ UNCHANGED <<canvas, src, imageData, metrics, blurAnalysis, contrastBrightnessAnalysisResult,
                 aiClassification, error, last, calls, outOfBounds, written, inflight, page>>

\* img.onerror: the promise is rejected
ImgOnError ==
  /\ pc = "loading"
  /\ src = BrokenUrl
  /\ error' = [message |-> "Failed to load image"]
  /\ pc' = "rejected"
  /\ UNCHANGED <<canvas, src, imageData, metrics, blurAnalysis, contrastBrightnessAnalysisResult,
                 aiClassification, result, last, calls, outOfBounds, written, inflight, page>>

Next ==
  \/ \E imageUrl \in Urls : AnalyzeImage(imageUrl)
  \/ ImgOnLoad
  \/ Resume
  \/ ImgOnError

Spec == Init /\ [][Next]_vars

(***************************************************************************)
(* The engines called directly on a buffer, malformed ones included: the   *)
(* three engines are independent and run once each, in any order.          *)
(***************************************************************************)
\* the loop `for (i = 0; i < data.length; i += 4)` reads data[i + 1] or
\* data[i + 2] past the end when the length is 1 or 2 more than a multiple of 4
PixelLoopReadsOutside(img) == Len(img.data) % 4 \in {1, 2}

\* a loop over the interior pixels reads the 3 x 3 neighbourhood of each, up to
\* the blue byte of pixel width * height - 1
InteriorLoopReadsOutside(img) ==
  /\ img.width >= 3 /\ img.height >= 3
  /\ (img.width * img.height - 1) * 4 + 2 >= Len(img.data)

\* the windows of calculateLocalContrast read up to windowSize pixels around
\* each centre, rows and columns inside width x height
WindowLoopReadsOutside(img) ==
  \E c \in WindowCentres(img.width) \X WindowCentres(img.height) :
    ((c[2] + windowSize) * img.width + c[1] + windowSize) * 4 + 2 >= Len(img.data)

InitCore ==
  /\ canvas = [width |-> 300, height |-> 150, pixels |-> 0]
  /\ pc = "core"
  /\ src = BrokenUrl
  /\ imageData \in 1..Len(Buffers)
  /\ metrics = undefined
  /\ blurAnalysis = undefined
  /\ contrastBrightnessAnalysisResult = undefined
  /\ aiClassification = undefined
  /\ result = undefined
  /\ error = undefined
  /\ last = undefined
  /\ calls = 0
  /\ outOfBounds = FALSE
  /\ written = {}
  /\ inflight = undefined
  /\ page = undefined

\* calculateMetrics(imageData)
CoreCalculateMetrics ==
  /\ pc = "core"
  /\ metrics = undefined
  /\ metrics' = MetricsOf[imageData]
  /\ outOfBounds' = (outOfBounds \/ PixelLoopReadsOutside(Buffers[imageData])
                                 \/ InteriorLoopReadsOutside(Buffers[imageData]))
  /\ calls' = calls + 1
  /\ UNCHANGED <<canvas, pc, src, imageData, blurAnalysis, contrastBrightnessAnalysisResult,
                 aiClassification, result, error, last, written, inflight, page>>

\* blurDetector.analyzeBlur(imageData)
CoreAnalyzeBlur ==
  /\ pc = "core"
  /\ blurAnalysis = undefined
  /\ blurAnalysis' = BlurOf[imageData]
  /\ outOfBounds' = (outOfBounds \/ InteriorLoopReadsOutside(Buffers[imageData]))
  /\ calls' = calls + 1
  /\ written' = written \cup AnalyzeBlurWrites[imageData]
  /\ UNCHANGED <<canvas, pc, src, imageData, metrics, contrastBrightnessAnalysisResult,
                 aiClassification, result, error, last, inflight, page>>

\* contrastBrightnessAnalyzer.analyzeContrastBrightness(imageData)
CoreAnalyzeContrastBrightness ==
  /\ pc = "core"
  /\ contrastBrightnessAnalysisResult = undefined
  /\ contrastBrightnessAnalysisResult' = ContrastBrightnessOf[imageData]
  /\ outOfBounds' = (outOfBounds \/ PixelLoopReadsOutside(Buffers[imageData])
                                 \/ WindowLoopReadsOutside(Buffers[imageData]))
  /\ calls' = calls + 1
  /\ written' = written \cup AnalyzeContrastBrightnessWrites[imageData]
  /\ UNCHANGED <<canvas, pc, src, imageData, metrics, blurAnalysis,
                 aiClassification, result, error, last, inflight, page>>

NextCore ==
  \/ CoreCalculateMetrics
  \/ CoreAnalyzeBlur
  \/ CoreAnalyzeContrastBrightness

SpecCore == InitCore /\ [][NextCore]_vars

(***************************************************************************)
(* The functions of the engines called directly, on arguments drawn from   *)
(* bounded sets, one call per behaviour: `result` holds the call, its      *)
(* arguments and what it returned.                                         *)
(***************************************************************************)
InitUnit ==
  /\ canvas = [width |-> 300, height |-> 150, pixels |-> 0]
  /\ pc = "unit"
  /\ src = BrokenUrl
  /\ imageData = 0
  /\ metrics = undefined
  /\ blurAnalysis = undefined
  /\ contrastBrightnessAnalysisResult = undefined
  /\ aiClassification = undefined
  /\ result = undefined
  /\ error = undefined
  /\ last = undefined
  /\ calls = 0
  /\ outOfBounds = FALSE
  /\ written = {}
  /\ inflight = undefined
  /\ page = undefined

\* the record of a call
Returned(name, args, value) == [call |-> name, args |-> args, value |-> value]

\* buffers that differ in their Laplacian responses: flat, one pixel off by
\* one or two gray levels, half or all of the image a checkerboard
Probes ==
  << Solid(3, 3, gray), Dot(3, 3, gray, <<129, 129, 129>>), Dot(3, 3, gray, <<130, 130, 130>>),
     Solid(33, 33, black), HalfChecker(33, 33, black, white), Checker(33, 33, black, white) >>

\* what C12 compares, tabulated once over the probes
ProbeSharpness ==
  SubSeq([k \in 1..Len(Probes) |-> calculateMetrics(Probes[k]).sharpness], 1, Len(Probes))

ProbeRegions ==
  SubSeq([k \in 1..Len(Probes) |->
            detectBlurRegions(Probes[k], Probes[k].width, Probes[k].height)], 1, Len(Probes))

\* calculateMetrics and detectBlurRegions on two buffers of the same dimensions
CallOnTwoBuffers(a, b) ==
  /\ pc = "unit" /\ result = undefined
  /\ Probes[a].width = Probes[b].width /\ Probes[a].height = Probes[b].height
  /\ result' = Returned("calculateMetrics, detectBlurRegions", <<a, b>>,
                        [ sharpness |-> <<ProbeSharpness[a], ProbeSharpness[b]>>,
                          blurRegions |-> <<ProbeRegions[a], ProbeRegions[b]>> ])
  /\ UNCHANGED <<canvas, pc, src, imageData, metrics, blurAnalysis,
                 contrastBrightnessAnalysisResult, aiClassification, error, last, calls,
                 outOfBounds, written, inflight, page>>

\* the issue lists detectIssues can build: at most one issue of each type, in
\* the order blur, contrast, brightness, noise, each of any severity
IssueOfSeverity(type, severity) ==
  IssueIf(severity # "none",
          [type |-> type, severity |-> severity, score |-> Milli(500), description |-> <<type>>])

IssueLists ==
  LET s == {"none", "low", "medium", "high"}
  IN {IssueOfSeverity("blur", a) \o IssueOfSeverity("contrast", b)
        \o IssueOfSeverity("brightness", c) \o IssueOfSeverity("noise", d) :
      a \in s, b \in s, c \in s, d \in s}

\* the classifications passed on to the aggregation, or none
QualityClasses == {"excellent", "good", "fair", "poor", "very_poor"}

Classifications ==
  {undefined} \cup {[qualityClass |-> q, confidence |-> Milli(800)] : q \in QualityClasses}

\* determineOverallQuality(metrics, issues, aiClassification); the metrics are
\* not read
CallDetermineOverallQuality(issues, ai) ==
  /\ pc = "unit" /\ result = undefined
  /\ result' = Returned("determineOverallQuality", [issues |-> issues, aiClassification |-> ai],
                        determineOverallQuality(MetricsOf[1], issues, ai))
  /\ UNCHANGED <<canvas, pc, src, imageData, metrics, blurAnalysis,
                 contrastBrightnessAnalysisResult, aiClassification, error, last, calls,
                 outOfBounds, written, inflight, page>>

\* the metrics, blur analyses and exposure analyses the technical score is
\* computed for; an analysis may be absent
MetricsGrid ==
  [ sharpness : {0, Milli(500), SCALE}, contrast : {0, SCALE},
    brightness : {0, Milli(300), Milli(500), SCALE}, saturation : {0, Milli(400), SCALE},
    noise : {0, Milli(200), SCALE} ]

BlurGrid ==
  {undefined} \cup {[overallBlurScore |-> s] : s \in {Milli(300), Milli(700), Milli(700) + 1}}

ExposureGrid ==
  {undefined} \cup {[exposureAnalysis |-> [optimalExposure |-> o]] : o \in BOOLEAN}

\* calculateTechnicalScore(basicMetrics, blurAnalysis, contrastBrightnessAnalysis)
CallCalculateTechnicalScore(m, b, cb) ==
  /\ pc = "unit" /\ result = undefined
  /\ result' = Returned("calculateTechnicalScore",
                        [basicMetrics |-> m, blurAnalysis |-> b, contrastBrightnessAnalysis |-> cb],
                        calculateTechnicalScore(m, b, cb))
  /\ UNCHANGED <<canvas, pc, src, imageData, metrics, blurAnalysis,
                 contrastBrightnessAnalysisResult, aiClassification, error, last, calls,
                 outOfBounds, written, inflight, page>>

\* buffers of several blocks: flat; flat on the left and a checkerboard on
\* the right; one column of blocks
RegionProbes ==
  << Solid(97, 65, gray), HalfChecker(97, 65, black, white), Solid(33, 70, white) >>

RegionProbeRegions ==
  SubSeq([k \in 1..Len(RegionProbes) |->
            detectBlurRegions(RegionProbes[k], RegionProbes[k].width, RegionProbes[k].height)],
         1, Len(RegionProbes))

\* detectBlurRegions(imageData, width, height)
CallDetectBlurRegions(k) ==
  /\ pc = "unit" /\ result = undefined
  /\ result' = Returned("detectBlurRegions", k, RegionProbeRegions[k])
  /\ UNCHANGED <<canvas, pc, src, imageData, metrics, blurAnalysis,
                 contrastBrightnessAnalysisResult, aiClassification, error, last, calls,
                 outOfBounds, written, inflight, page>>

\* buffers with different directional differences: none; the same in every
\* direction; horizontal only; horizontal and diagonal; no interior pixel
TypeProbes ==
  << Solid(3, 3, gray), Dot(3, 3, gray, white), Spot(3, 3, gray, white, 2, 1),
     Stripes(4, 4, black, white), Solid(1, 1, gray) >>

\* the overall blur scores around the thresholds 0.3 and 0.7, and NaN
TypeScores ==
  {0, Milli(300) - 1, Milli(300), Milli(500), Milli(700), Milli(700) + 1, SCALE, NaN}

\* detectBlurType(imageData, overallScore)
CallDetectBlurType(k, overallScore) ==
  /\ pc = "unit" /\ result = undefined
  /\ result' = Returned("detectBlurType", [imageData |-> k, overallScore |-> overallScore],
                        detectBlurType(TypeProbes[k], overallScore))
  /\ UNCHANGED <<canvas, pc, src, imageData, metrics, blurAnalysis,
                 contrastBrightnessAnalysisResult, aiClassification, error, last, calls,
                 outOfBounds, written, inflight, page>>

\* the feature records the quality class is predicted for: the three scores
\* at and just below the thresholds, with and without professionalGrade
ScoreGrid ==
  {0, Milli(250) - 10, Milli(250), Milli(500) - 10, Milli(500), Milli(750) - 10, Milli(750),
   Milli(900) - 10, Milli(900), SCALE}

FeatureGrid ==
  [ technicalScore : ScoreGrid, aestheticScore : ScoreGrid, compositionScore : ScoreGrid,
    professionalGrade : BOOLEAN ]

\* predictQualityClass(features, basicMetrics); the metrics are not read
CallPredictQualityClass(features) ==
  /\ pc = "unit" /\ result = undefined
  /\ result' = Returned("predictQualityClass", features,
                        predictQualityClass(features, MetricsOf[1]))
  /\ UNCHANGED <<canvas, pc, src, imageData, metrics, blurAnalysis,
                 contrastBrightnessAnalysisResult, aiClassification, error, last, calls,
                 outOfBounds, written, inflight, page>>

\* the arguments detectIssues is called with: metrics, blur analyses and
\* contrast-brightness analyses on both sides of every threshold it tests;
\* either analysis may be absent
IssueMetrics ==
  [ sharpness : {Milli(500)}, saturation : {Milli(500)},
    contrast : {Milli(50), Milli(150), Milli(250), Milli(300)},
    brightness : {Milli(50), Milli(100), Milli(150), Milli(200), Milli(500), Milli(800),
                  Milli(850), Milli(900), Milli(950)},
    noise : {Milli(400), Milli(450), Milli(600), Milli(800)} ]

IssueBlurAnalyses ==
  {undefined} \cup
  {[overallBlurScore |-> s, blurType |-> "focus", blurRegions |-> << >>, confidence |-> Milli(800)] :
     s \in {0, Milli(200) - 1, Milli(200), Milli(350) - 1, Milli(350), Milli(500) - 1,
            Milli(500), SCALE, NaN}}

IssueExposures ==
  { [level |-> "optimal", average |-> Milli(500), shadows |-> 0, highlights |-> 0],
    [level |-> "underexposed", average |-> Milli(200), shadows |-> Milli(100), highlights |-> 0],
    [level |-> "underexposed", average |-> Milli(100), shadows |-> Milli(200), highlights |-> 0],
    [level |-> "overexposed", average |-> Milli(800), shadows |-> 0, highlights |-> Milli(100)],
    [level |-> "overexposed", average |-> Milli(900), shadows |-> 0, highlights |-> Milli(101)] }

IssueContrastBrightnessAnalyses ==
  {undefined} \cup
  {[ contrast |-> [globalContrast |-> g, localContrast |-> l],
     brightness |-> [averageBrightness |-> e.average, exposureLevel |-> e.level],
     exposureAnalysis |-> [clippedShadows |-> e.shadows, clippedHighlights |-> e.highlights] ] :
     g \in {Milli(100), Milli(300)}, l \in {0, Milli(100), Milli(300)}, e \in IssueExposures}

\* detectIssues(metrics, blurAnalysis, contrastBrightnessAnalysis)
CallDetectIssues(m, b, cb) ==
  /\ pc = "unit" /\ result = undefined
  /\ result' = Returned("detectIssues",
                        [metrics |-> m, blurAnalysis |-> b, contrastBrightnessAnalysis |-> cb],
                        detectIssues(m, b, cb))
  /\ UNCHANGED <<canvas, pc, src, imageData, metrics, blurAnalysis,
                 contrastBrightnessAnalysisResult, aiClassification, error, last, calls,
                 outOfBounds, written, inflight, page>>

\* the pictures analyzeContrastBrightness is called with: dark, bright and
\* mid-toned ones, with no, one or both ends of the range clipped, at and
\* beside the thresholds of exposureLevel and of the clipped shares
ExposureProbes ==
  << Solid(4, 4, <<50, 50, 50>>), Solid(4, 4, black), Solid(4, 4, white),
     Solid(4, 4, <<200, 200, 200>>), Solid(4, 4, gray),
     Halves(4, 4, black, white), Halves(4, 4, white, <<60, 60, 60>>),
     Halves(4, 4, black, <<200, 200, 200>>),
     Halves(4, 4, <<76, 76, 76>>, <<77, 77, 77>>), Halves(4, 4, <<178, 178, 178>>, <<179, 179, 179>>),
     Halves(4, 4, <<76, 76, 76>>, <<76, 76, 76>>), Halves(4, 4, <<179, 179, 179>>, <<179, 179, 179>>),
     Spot(5, 4, gray, black, 2, 2), Spot(4, 4, gray, black, 2, 2),
     Spot(5, 4, gray, white, 2, 2), Spot(4, 4, gray, white, 2, 2) >>

ExposureProbeAnalyses ==
  SubSeq([k \in 1..Len(ExposureProbes) |-> analyzeContrastBrightness(ExposureProbes[k])],
         1, Len(ExposureProbes))

\* analyzeContrastBrightness(imageData)
CallAnalyzeContrastBrightness(k) ==
  /\ pc = "unit" /\ result = undefined
  /\ result' = Returned("analyzeContrastBrightness", k, ExposureProbeAnalyses[k])
  /\ UNCHANGED <<canvas, pc, src, imageData, metrics, blurAnalysis,
                 contrastBrightnessAnalysisResult, aiClassification, error, last, calls,
                 outOfBounds, written, inflight, page>>

\* the arguments generateRecommendations is called with.  calculateColorHarmony
\* starts from 0.5 and only adds to it, so colorHarmony is one of 0.5, 0.7,
\* 0.75 and 0.8; compositionScore is the mean of three placeholder draws
RecommendationFeatures ==
  [ aestheticScore : {Milli(700)}, technicalScore : {Milli(600)},
    compositionScore : {Milli(400), Milli(500)},
    colorHarmony : {Milli(500), Milli(700), Milli(750), Milli(800)},
    professionalGrade : {FALSE} ]

RecommendationMetrics ==
  [ sharpness : {Milli(200), Milli(300), Milli(600)}, contrast : {Milli(500)},
    brightness : {Milli(500)}, saturation : {Milli(500)},
    noise : {Milli(400), Milli(500), Milli(800)} ]

RecommendationExposures ==
  {undefined} \cup
  {[ exposureAnalysis |-> [ clippedShadows |-> e[1], clippedHighlights |-> e[2],
                            optimalExposure |-> e[1] < Milli(20) /\ e[2] < Milli(20),
                            recommendedAdjustment |-> e[3] ] ] :
     e \in { <<0, 0, "No adjustment needed">>,
             <<Milli(100), 0, "Lift shadows to recover detail">>,
             <<0, Milli(500), "Decrease exposure by -0.5 to -1.5 stops">> }}

\* generateRecommendations(features, basicMetrics, blurAnalysis, contrastBrightnessAnalysis)
CallGenerateRecommendations(features, m, cb) ==
  /\ pc = "unit" /\ result = undefined
  /\ result' = Returned("generateRecommendations",
                        [features |-> features, basicMetrics |-> m,
                         contrastBrightnessAnalysis |-> cb],
                        generateRecommendations(features, m, undefined, cb))
  /\ UNCHANGED <<canvas, pc, src, imageData, metrics, blurAnalysis,
                 contrastBrightnessAnalysisResult, aiClassification, error, last, calls,
                 outOfBounds, written, inflight, page>>

\* the arguments classifyImage is called with: metrics at the ends of [0, 1]
\* and at values that put technicalScore on and beside the thresholds of the
\* technical assessment, with and without the two analyses; the placeholder
\* draws at their ends, those of a score moving together (each score is
\* monotone in each of its draws)
ClassifyMetrics ==
  [ sharpness : {0, Milli(600), Milli(800), SCALE}, contrast : {0, Milli(750), SCALE},
    brightness : {0, Milli(500)}, saturation : {0, SCALE}, noise : {0, Milli(200), SCALE} ]

ClassifyBlurAnalyses == {undefined, [overallBlurScore |-> Milli(800)]}

ClassifyExposures ==
  {undefined} \cup {[exposureAnalysis |-> [optimalExposure |-> o]] : o \in BOOLEAN}

ClassifyDraws ==
  { draws \in Draws :
      /\ draws.colorDistribution = draws.ruleOfThirds
      /\ draws.edgeDistribution = draws.ruleOfThirds
      /\ draws.balance = draws.ruleOfThirds
      /\ draws.leadingLines = draws.symmetry
      /\ draws.depth = draws.symmetry }

\* classifyImage(imageData, basicMetrics, blurAnalysis, contrastBrightnessAnalysis)
CallClassifyImage(draws, m, b, cb) ==
  /\ pc = "unit" /\ result = undefined
  /\ result' = Returned("classifyImage",
                        [basicMetrics |-> m, blurAnalysis |-> b, contrastBrightnessAnalysis |-> cb],
                        classifyImage(draws, m, b, cb))
  /\ UNCHANGED <<canvas, pc, src, imageData, metrics, blurAnalysis,
                 contrastBrightnessAnalysisResult, aiClassification, error, last, calls,
                 outOfBounds, written, inflight, page>>

\* no call is made after the one call has returned
NextUnit ==
  \/ result = undefined /\ \E a \in 1..Len(Probes), b \in 1..Len(Probes) : CallOnTwoBuffers(a, b)
  \/ result = undefined /\ \E issues \in IssueLists, ai \in Classifications :
       CallDetermineOverallQuality(issues, ai)
  \/ result = undefined /\ \E m \in MetricsGrid, b \in BlurGrid, cb \in ExposureGrid :
       CallCalculateTechnicalScore(m, b, cb)
  \/ result = undefined /\ \E k \in 1..Len(RegionProbes) : CallDetectBlurRegions(k)
  \/ result = undefined /\ \E k \in 1..Len(TypeProbes), overallScore \in TypeScores :
       CallDetectBlurType(k, overallScore)
  \/ result = undefined /\ \E features \in FeatureGrid : CallPredictQualityClass(features)
  \/ result = undefined /\ \E m \in IssueMetrics, b \in IssueBlurAnalyses,
                               cb \in IssueContrastBrightnessAnalyses :
       CallDetectIssues(m, b, cb)
  \/ result = undefined /\ \E k \in 1..Len(ExposureProbes) : CallAnalyzeContrastBrightness(k)
  \/ result = undefined /\ \E features \in RecommendationFeatures, m \in RecommendationMetrics,
                               cb \in RecommendationExposures :
       CallGenerateRecommendations(features, m, cb)
  \/ result = undefined /\ \E draws \in ClassifyDraws, m \in ClassifyMetrics,
                               b \in ClassifyBlurAnalyses, cb \in ClassifyExposures :
       CallClassifyImage(draws, m, b, cb)

SpecUnit == InitUnit /\ [][NextUnit]_vars

(***************************************************************************)
(* Overlapping analyzeImage calls on one ImageAnalyzer.  Each call has its *)
(* own Image and its own onload handler with its own locals; the canvas    *)
(* and its context are fields of the analyzer and shared.  A handler runs  *)
(* without interruption up to its await and from there to its end.         *)
(***************************************************************************)
Callers == 1..2

\* the images of the overlapping calls: two pictures of one size, one of
\* another size, and an image that fails to load
OverlapUrls == {BrokenUrl, 3, 4, 5}

\* the placeholder draws of the overlapping calls: all at one end
OverlapDraws ==
  { draws \in ClassifyDraws : draws.symmetry = draws.ruleOfThirds }

NoCall ==
  [ pc |-> "idle", src |-> BrokenUrl, imageData |-> 0, metrics |-> undefined,
    blurAnalysis |-> undefined, contrastBrightnessAnalysisResult |-> undefined,
    aiClassification |-> undefined, result |-> undefined, error |-> undefined ]

InitOverlap ==
  /\ canvas = [width |-> 300, height |-> 150, pixels |-> 0]
  /\ pc = "overlap"
  /\ src = BrokenUrl
  /\ imageData = 0
  /\ metrics = undefined
  /\ blurAnalysis = undefined
  /\ contrastBrightnessAnalysisResult = undefined
  /\ aiClassification = undefined
  /\ result = undefined
  /\ error = undefined
  /\ last = undefined
  /\ calls = 0
  /\ outOfBounds = FALSE
  /\ written = {}
  /\ inflight = [c \in Callers |-> NoCall]
  /\ page = undefined

\* analyzeImage(imageUrl) by caller c: a new Image is created and its src set
OverlapAnalyzeImage(c, imageUrl) ==
  /\ pc = "overlap"
  /\ inflight[c].pc = "idle"
  /\ inflight' = [inflight EXCEPT ![c].pc = "loading", ![c].src = imageUrl]
  /\ UNCHANGED <<canvas, pc, src, imageData, metrics, blurAnalysis,
                 contrastBrightnessAnalysisResult, aiClassification, result, error, last,
                 calls, outOfBounds, written, page>>

\* img.onload of call c up to the await
OverlapImgOnLoad(c) ==
  /\ pc = "overlap"
  /\ inflight[c].pc = "loading"
  /\ inflight[c].src # BrokenUrl
  /\ canvas' = drawImage(Resize(canvas, Pictures[inflight[c].src]), inflight[c].src)
  /\ \E draws \in OverlapDraws :
       LET data == getImageData(canvas')
       IN inflight' = [inflight EXCEPT
            ![c].pc = "awaiting",
            ![c].imageData = data,
            ![c].metrics = MetricsOf[data],
            ![c].blurAnalysis = BlurOf[data],
            ![c].contrastBrightnessAnalysisResult = ContrastBrightnessOf[data],
            ![c].aiClassification =
              classifyImage(draws, MetricsOf[data], BlurOf[data], ContrastBrightnessOf[data])]
  /\ UNCHANGED <<pc, src, imageData, metrics, blurAnalysis,
                 contrastBrightnessAnalysisResult, aiClassification, result, error, last,
                 calls, outOfBounds, written, page>>

\* the result of call c from the locals m, b and cb of its handler
OverlapResolved(c, m, b, cb) ==
  LET issues == detectIssues(m, b, cb)
      ai == inflight[c].aiClassification
  IN [inflight EXCEPT
        ![c].pc = "resolved",
        ![c].result = [ overallQuality |-> determineOverallQuality(m, issues, ai),
                        confidence |-> calculateConfidence(m, issues, ai),
                        issues |-> issues,
                        metrics |-> m,
                        blurAnalysis |-> b,
                        contrastBrightnessAnalysis |-> cb,
                        aiClassification |-> ai ]]

\* a slip: the pixels are read back from the canvas after the await
OverlapResumeReadsCanvas(c) ==
  /\ pc = "overlap"
  /\ inflight[c].pc = "awaiting"
  /\ LET data == getImageData(canvas)
     IN inflight' = OverlapResolved(c, MetricsOf[data], BlurOf[data], ContrastBrightnessOf[data])
  /\ UNCHANGED <<canvas, pc, src, imageData, metrics, blurAnalysis,
                 contrastBrightnessAnalysisResult, aiClassification, result, error, last,
                 calls, outOfBounds, written, page>>

\* img.onload of call c after the await
OverlapResume(c) ==
  /\ pc = "overlap"
  /\ inflight[c].pc = "awaiting"
  /\ inflight' = OverlapResolved(c, inflight[c].metrics, inflight[c].blurAnalysis,
                                 inflight[c].contrastBrightnessAnalysisResult)
  /\ UNCHANGED <<canvas, pc, src, imageData, metrics, blurAnalysis,
                 contrastBrightnessAnalysisResult, aiClassification, result, error, last,
                 calls, outOfBounds, written, page>>

\* img.onerror of call c
OverlapImgOnError(c) ==
  /\ pc = "overlap"
  /\ inflight[c].pc = "loading"
  /\ inflight[c].src = BrokenUrl
  /\ inflight' = [inflight EXCEPT ![c].pc = "rejected",
                                  ![c].error = [message |-> "Failed to load image"]]
  /\ UNCHANGED <<canvas, pc, src, imageData, metrics, blurAnalysis,
                 contrastBrightnessAnalysisResult, aiClassification, result, error, last,
                 calls, outOfBounds, written, page>>

NextOverlap ==
  \/ \E c \in Callers, imageUrl \in OverlapUrls : OverlapAnalyzeImage(c, imageUrl)
  \/ \E c \in Callers : OverlapImgOnLoad(c)
  \/ \E c \in Callers : OverlapResume(c)
  \/ \E c \in Callers : OverlapImgOnError(c)

SpecOverlap == InitOverlap /\ [][NextOverlap]_vars

(***************************************************************************)
(* The page: ImageQualityAnalyzer with its three pieces of state, the      *)
(* upload handler, and one handleAnalyze run at a time (the button is      *)
(* disabled while isAnalyzing); the upload control stays enabled.          *)
(***************************************************************************)
\* useState<... | null>(null) for analysisResults
null == [null |-> TRUE]

\* useState<string | null>(null) for uploadedImage: no image URL
NoImage == -1

\* the images a user uploads: three pictures and one that fails to load
PageUrls == {BrokenUrl, 3, 4, 5}

\* the result analyzeImage resolves with for picture k under the given draws
ResolvedWith(k, draws) ==
  LET ai == classifyImage(draws, MetricsOf[k], BlurOf[k], ContrastBrightnessOf[k])
      issues == detectIssues(MetricsOf[k], BlurOf[k], ContrastBrightnessOf[k])
  IN [ overallQuality |-> determineOverallQuality(MetricsOf[k], issues, ai),
       confidence |-> calculateConfidence(MetricsOf[k], issues, ai),
       issues |-> issues,
       metrics |-> MetricsOf[k],
       blurAnalysis |-> BlurOf[k],
       contrastBrightnessAnalysis |-> ContrastBrightnessOf[k],
       aiClassification |-> ai ]

\* The page state holds a result of analyzeImage by the picture and the draws
\* it was computed from; PageResults gives its value.
PageResults ==
  [k \in PageUrls \ {BrokenUrl} |-> [draws \in OverlapDraws |-> ResolvedWith(k, draws)]]

\* the value of analysisResults: null, the route's analysis, or a result of
\* analyzeImage
ResultsValue(r) ==
  IF r # null /\ "picture" \in DOMAIN r THEN PageResults[r.picture][r.draws] ELSE r

\* the fixed analysis the route answers with
mockAnalysis ==
  [ overallQuality |-> "Good",
    confidence |-> Milli(850),
    issues |-> << [ type |-> "blur", severity |-> "low", score |-> Milli(150),
                    description |-> <<"Slight blur detected in some areas">> ],
                  [ type |-> "contrast", severity |-> "medium", score |-> Milli(350),
                    description |-> <<"Contrast could be improved for better visual impact">> ] >>,
    metrics |-> [ sharpness |-> Milli(750), contrast |-> Milli(650), brightness |-> Milli(550),
                  saturation |-> Milli(700), noise |-> Milli(200) ] ]

\* POST /api/analyze-image with the body {imageUrl}
POST(imageUrl) ==
  IF imageUrl = NoImage
  THEN [status |-> 400, body |-> [error |-> "Image URL is required"]]
  ELSE [status |-> 200, body |-> mockAnalysis]

\* no handleAnalyze run has been started
NoRun ==
  [ pc |-> "none", uploadedImage |-> NoImage, draws |-> undefined, response |-> undefined,
    settled |-> 0, error |-> undefined, fetched |-> FALSE, outcome |-> "none" ]

InitPage ==
  /\ canvas = [width |-> 300, height |-> 150, pixels |-> 0]
  /\ pc = "page"
  /\ src = BrokenUrl
  /\ imageData = 0
  /\ metrics = undefined
  /\ blurAnalysis = undefined
  /\ contrastBrightnessAnalysisResult = undefined
  /\ aiClassification = undefined
  /\ result = undefined
  /\ error = undefined
  /\ last = undefined
  /\ calls = 0
  /\ outOfBounds = FALSE
  /\ written = {}
  /\ inflight = undefined
  /\ page = [ uploadedImage |-> NoImage, analysisResults |-> null, isAnalyzing |-> FALSE,
              resultsOf |-> NoImage,  \* history: the image analysisResults was computed from
              run |-> NoRun ]         \* the handleAnalyze run, with the uploadedImage it closed over

PageUnchanged ==
  UNCHANGED <<canvas, pc, src, imageData, metrics, blurAnalysis,
              contrastBrightnessAnalysisResult, aiClassification, result, error, last,
              calls, outOfBounds, written, inflight>>

\* handleImageUpload(imageUrl)
handleImageUpload(imageUrl) ==
  /\ pc = "page"
  /\ page' = [page EXCEPT !.uploadedImage = imageUrl, !.analysisResults = null,
                          !.resultsOf = NoImage]
  /\ PageUnchanged

\* handleAnalyze up to its first await: the button is rendered once an image
\* is uploaded and enabled while isAnalyzing is false; a new ImageAnalyzer is
\* made and analyzeImage(uploadedImage) sets img.src
handleAnalyze ==
  /\ pc = "page"
  /\ page.uploadedImage # NoImage
  /\ ~page.isAnalyzing
  /\ page' = [page EXCEPT !.isAnalyzing = TRUE,
                          !.run = [NoRun EXCEPT !.pc = "loading",
                                                !.uploadedImage = page.uploadedImage]]
  /\ PageUnchanged

\* img.onload up to the await on classifyImage
PageImgOnLoad ==
  /\ pc = "page"
  /\ page.run.pc = "loading"
  /\ page.run.uploadedImage # BrokenUrl
  /\ \E draws \in OverlapDraws :
       page' = [page EXCEPT !.run.pc = "awaiting", !.run.draws = draws]
  /\ PageUnchanged

\* img.onload after its await resolves the promise; handleAnalyze goes on
\* with setAnalysisResults(results) and the finally block
PageResume ==
  /\ pc = "page"
  /\ page.run.pc = "awaiting"
  /\ page' = [page EXCEPT !.analysisResults = [picture |-> page.run.uploadedImage,
                                               draws |-> page.run.draws],
                          !.resultsOf = page.run.uploadedImage,
                          !.isAnalyzing = FALSE,
                          !.run.pc = "done",
                          !.run.settled = @ + 1,
                          !.run.outcome = "local"]
  /\ PageUnchanged

\* img.onerror rejects the promise; the catch block of handleAnalyze starts
\* the fetch
PageImgOnError ==
  /\ pc = "page"
  /\ page.run.pc = "loading"
  /\ page.run.uploadedImage = BrokenUrl
  /\ page' = [page EXCEPT !.run.pc = "fetching",
                          !.run.settled = @ + 1,
                          !.run.error = [message |-> "Failed to load image"],
                          !.run.fetched = TRUE]
  /\ PageUnchanged

\* the fetch resolves with the route's response; a response that is not ok
\* throws into the inner catch, and the finally block runs
PageFetchResolves ==
  /\ pc = "page"
  /\ page.run.pc = "fetching"
  /\ LET response == POST(page.run.uploadedImage)
     IN IF response.status \in 200..299
        THEN page' = [page EXCEPT !.run.pc = "parsing", !.run.response = response]
        ELSE page' = [page EXCEPT !.isAnalyzing = FALSE, !.run.pc = "done",
                                  !.run.response = response, !.run.outcome = "failed"]
  /\ PageUnchanged

\* a slip: the failure path leaves without setIsAnalyzing(false) (no finally)
PageFetchRejectsStuck ==
  /\ pc = "page"
  /\ page.run.pc = "fetching"
  /\ page' = [page EXCEPT !.run.pc = "done", !.run.outcome = "failed"]
  /\ PageUnchanged

\* the fetch rejects (the request does not get through): inner catch, finally
PageFetchRejects ==
  /\ pc = "page"
  /\ page.run.pc = "fetching"
  /\ page' = [page EXCEPT !.isAnalyzing = FALSE, !.run.pc = "done", !.run.outcome = "failed"]
  /\ PageUnchanged

\* response.json() resolves: setAnalysisResults(results), finally
PageJsonResolves ==
  /\ pc = "page"
  /\ page.run.pc = "parsing"
  /\ page' = [page EXCEPT !.analysisResults = page.run.response.body,
                          !.resultsOf = page.run.uploadedImage,
                          !.isAnalyzing = FALSE,
                          !.run.pc = "done",
                          !.run.outcome = "fallback"]
  /\ PageUnchanged

NextPage ==
  \/ \E imageUrl \in PageUrls : handleImageUpload(imageUrl)
  \/ handleAnalyze
  \/ PageImgOnLoad
  \/ PageResume
  \/ PageImgOnError
  \/ PageFetchResolves
  \/ PageFetchRejects
  \/ PageJsonResolves

\* the image load and the fallback request settle, and a handler that can run
\* does run; the user need not upload or analyse
SpecPage ==
  /\ InitPage /\ [][NextPage]_vars
  /\ WF_vars(PageImgOnLoad) /\ WF_vars(PageResume) /\ WF_vars(PageImgOnError)
  /\ WF_vars(PageFetchResolves \/ PageFetchRejects) /\ WF_vars(PageJsonResolves)

(***************************************************************************)
(* Properties.                                                             *)
(***************************************************************************)
\* the buffer under analysis
Buffer == Buffers[imageData]

\* the numbers of the buffers that are well formed and of one colour
UniformBuffers ==
  {k \in 1..Len(Buffers) :
     /\ WellFormed(Buffers[k])
     /\ \A i \in 1..Len(Buffers[k].data) : Buffers[k].data[i] = Buffers[k].data[((i - 1) % 4) + 1]}

\* the number of the 64 x 64 mid-gray picture, and of the black and white halves
MidGray64 == CHOOSE k \in 1..Len(Pictures) : Pictures[k] = Solid(64, 64, gray)

Split64 == CHOOSE k \in 1..Len(Pictures) : Pictures[k] = Halves(64, 64, black, white)

\* the rounded luminances of the pixels of each picture
RoundedLuminances ==
  SubSeq([k \in 1..Len(Pictures) |->
            {Round(Gray(Pictures[k], 4 * p)) : p \in 0..(PixelSteps(Pictures[k]) - 1)}],
         1, Len(Pictures))

InUnit(v) == Finite(v) /\ 0 <= v /\ v <= SCALE

InConfidenceRange(v) == Finite(v) /\ Milli(300) <= v /\ v <= Milli(950)

\* C1: for every well-formed buffer the five metrics sharpness, contrast,
\* brightness, saturation and noise lie in [0,1], and the blur confidence,
\* the classification confidence and the overall confidence lie in
\* [0.3, 0.95].
C1_MetricsAndConfidencesInRange ==
  /\ (metrics # undefined /\ WellFormed(Buffer)) =>
       /\ InUnit(metrics.sharpness) /\ InUnit(metrics.contrast) /\ InUnit(metrics.brightness)
       /\ InUnit(metrics.saturation) /\ InUnit(metrics.noise)
  /\ (blurAnalysis # undefined /\ WellFormed(Buffer)) => InConfidenceRange(blurAnalysis.confidence)
  /\ aiClassification # undefined => InConfidenceRange(aiClassification.confidence)
  /\ result # undefined => InConfidenceRange(result.confidence)

\* a call has resolved for a picture whose blur confidence was raised to 0.3
\* by the clamp and one whose overall confidence is below the base 0.8
C1_Witness ==
  /\ pc = "resolved"
  /\ result.blurAnalysis.confidence = Milli(300)
  /\ result.confidence < Milli(800)
  /\ result.metrics.brightness > 0

\* C2: each of the four histograms calculateHistogram builds (red, green,
\* blue, luminance) has 256 bins and its counts sum to width * height; the
\* rounded luminance of every pixel is a bin index in 0..255.
C2_HistogramsCountEveryPixel ==
  contrastBrightnessAnalysisResult # undefined =>
    LET h == contrastBrightnessAnalysisResult.histogram
    IN /\ h.bins = 256
       /\ \A c \in {"red", "green", "blue", "luminance"} :
            /\ DOMAIN h[c] = 0..255
            /\ Sum(LAMBDA i : h[c][i], 0..255) = Buffer.width * Buffer.height
       /\ RoundedLuminances[imageData] \subseteq 0..255

\* a picture with white pixels, whose luminance rounds to the last bin, and
\* with black ones has been analysed
C2_Witness ==
  /\ contrastBrightnessAnalysisResult # undefined
  /\ contrastBrightnessAnalysisResult.histogram.luminance[255] > 0
  /\ contrastBrightnessAnalysisResult.histogram.luminance[0] > 0

\* C3: for a uniform buffer analyzeBlur returns one blur region for every
\* full 32 x 32 block, floor(width / 32) * floor(height / 32) regions in all
\* (4 for a 64 x 64 image).
C3_OneRegionPerFullBlock ==
  (blurAnalysis # undefined /\ imageData \in UniformBuffers) =>
    Len(blurAnalysis.blurRegions) = (Buffer.width \div blockSize) * (Buffer.height \div blockSize)

\* C4: a buffer smaller than 3 x 3 in either dimension gets a defined
\* overallBlurScore in [0,1] from analyzeBlur, never NaN.
C4_SmallBufferHasDefinedBlurScore ==
  (blurAnalysis # undefined /\ WellFormed(Buffer) /\ (Buffer.width < 3 \/ Buffer.height < 3)) =>
    InUnit(blurAnalysis.overallBlurScore)

\* C5: for a malformed buffer (non-positive width or height, or a length
\* other than width * height * 4) an engine that is called fails with
\* MalformedBuffer, returns no metrics, blur analysis or histogram, and reads
\* no index outside the buffer.
C5_MalformedBufferFailsFast ==
  (pc = "core" /\ calls > 0 /\ ~WellFormed(Buffer)) =>
    /\ error # undefined /\ error.message = "MalformedBuffer"
    /\ metrics = undefined
    /\ blurAnalysis = undefined
    /\ contrastBrightnessAnalysisResult = undefined
    /\ ~outOfBounds

\* a call has resolved for the url of the call that resolved before it
SameBufferTwice == pc = "resolved" /\ last # undefined /\ last.url = src

\* C6: analysing the same buffer twice yields the same overallQuality and the
\* same overall confidence.
C6_SameBufferSameQualityAndConfidence ==
  SameBufferTwice =>
    /\ result.overallQuality = last.overallQuality
    /\ result.confidence = last.confidence

\* C7: analysing the same buffer twice yields the same metrics, blurAnalysis,
\* contrastBrightnessAnalysis and issues, whatever the placeholders drew and
\* whatever the call before left behind.
C7_SameBufferSameMeasurements ==
  SameBufferTwice =>
    /\ result.metrics = last.metrics
    /\ result.blurAnalysis = last.blurAnalysis
    /\ result.contrastBrightnessAnalysis = last.contrastBrightnessAnalysis
    /\ result.issues = last.issues

\* the same picture was analysed twice, issues were found, and the placeholders
\* drew differently enough for the overall quality to differ
C7_Witness ==
  /\ SameBufferTwice
  /\ Len(result.issues) > 0
  /\ result.overallQuality # last.overallQuality

\* C8, as stated: for a uniform image michelsonContrast and contrastRatio are
\* both 1.
C8_UniformContrastBothOne ==
  (contrastBrightnessAnalysisResult # undefined /\ imageData \in UniformBuffers) =>
    /\ contrastBrightnessAnalysisResult.contrast.michelsonContrast = SCALE
    /\ contrastBrightnessAnalysisResult.contrast.contrastRatio = SCALE

\* C8, amended: for a uniform image contrastRatio is 1 and michelsonContrast
\* is 0, or NaN (0 / 0) when the image's luminance rounds to 0.
C8_UniformContrastRatioOneMichelsonZero ==
  (contrastBrightnessAnalysisResult # undefined /\ imageData \in UniformBuffers) =>
    /\ contrastBrightnessAnalysisResult.contrast.contrastRatio = SCALE
    /\ contrastBrightnessAnalysisResult.contrast.michelsonContrast =
         (IF RoundedLuminances[imageData] = {0} THEN NaN ELSE 0)

\* a uniform picture that is not black has been analysed
C8_Witness ==
  /\ contrastBrightnessAnalysisResult # undefined
  /\ imageData \in UniformBuffers
  /\ RoundedLuminances[imageData] # {0}
  /\ contrastBrightnessAnalysisResult.contrast.michelsonContrast = 0

\* C9: the 64 x 64 mid-gray image is rated Fair or Poor, never Good, and its
\* exposure is optimal, whatever the placeholders draw.
C9_MidGrayFairOrPoorAndOptimalExposure ==
  (pc = "resolved" /\ imageData = MidGray64) =>
    /\ result.overallQuality \in {"Fair", "Poor"}
    /\ result.contrastBrightnessAnalysis.exposureAnalysis.optimalExposure = TRUE

\* the mid-gray image has been rated, under the highest aesthetic score the
\* placeholders can give
C9_Witness ==
  /\ pc = "resolved"
  /\ imageData = MidGray64
  /\ result.overallQuality = "Fair"
  /\ result.aiClassification.features.aestheticScore > Milli(990)

\* C10: for the 64 x 64 image that is black on the left half and white on the
\* right, michelsonContrast = 1, clippedShadows = clippedHighlights = 0.5,
\* exposureLevel is optimal, optimalExposure is false, and the recommended
\* adjustment is a shadow or highlight recovery, not an exposure change.
C10_BlackWhiteHalves ==
  (contrastBrightnessAnalysisResult # undefined /\ imageData = Split64) =>
    LET cb == contrastBrightnessAnalysisResult
    IN /\ cb.contrast.michelsonContrast = SCALE
       /\ cb.exposureAnalysis.clippedShadows = Milli(500)
       /\ cb.exposureAnalysis.clippedHighlights = Milli(500)
       /\ cb.brightness.exposureLevel = "optimal"
       /\ cb.exposureAnalysis.optimalExposure = FALSE
       /\ cb.exposureAnalysis.recommendedAdjustment
            \in {"Lift shadows to recover detail", "Lower highlights to recover detail"}

\* the halves image has been analysed and its call has resolved
C10_Witness ==
  /\ pc = "resolved"
  /\ imageData = Split64
  /\ result.contrastBrightnessAnalysis.exposureAnalysis.recommendedAdjustment
       = "Lift shadows to recover detail"

\* C11: for every uniform buffer of at least 3 x 3 pixels the metrics
\* sharpness, contrast and noise are 0, and analyzeBlur gives an
\* overallBlurScore below 0.3 and the blur type focus.
C11_UniformIsFlatAndFocus ==
  (imageData \in UniformBuffers /\ Buffer.width >= 3 /\ Buffer.height >= 3) =>
    /\ metrics # undefined =>
         metrics.sharpness = 0 /\ metrics.contrast = 0 /\ metrics.noise = 0
    /\ blurAnalysis # undefined =>
         /\ JLt(blurAnalysis.overallBlurScore, Milli(300))
         /\ blurAnalysis.blurType = "focus"

\* a uniform picture that is not black, of at least 3 x 3 pixels, has been analysed
C11_Witness ==
  /\ pc = "resolved"
  /\ imageData \in UniformBuffers
  /\ Buffer.width >= 3 /\ Buffer.height >= 3
  /\ Buffer.data[1] > 0
  /\ result.metrics.sharpness = 0
  /\ result.blurAnalysis.blurType = "focus"

\* the absolute Laplacian response of every interior pixel of a probe
ProbeResponses ==
  SubSeq([k \in 1..Len(Probes) |->
            LET P == GrayPlane(Probes[k])
            IN [p \in Interior(Probes[k].width, Probes[k].height) |->
                  Abs(Conv3(P, Probes[k].width, p[1], p[2], laplacianKernel))]],
         1, Len(Probes))

\* the pairs <<a, b>> of probes of the same dimensions in which every interior
\* pixel's response in b is at least its response in a
NoLessResponsive ==
  {ab \in (1..Len(Probes)) \X (1..Len(Probes)) :
     /\ Probes[ab[1]].width = Probes[ab[2]].width
     /\ Probes[ab[1]].height = Probes[ab[2]].height
     /\ \A p \in DOMAIN ProbeResponses[ab[1]] :
          ProbeResponses[ab[2]][p] >= ProbeResponses[ab[1]][p]}

ComparesTwoBuffers == result # undefined /\ result.call = "calculateMetrics, detectBlurRegions"

\* C12: of two buffers of the same dimensions, the second with an absolute
\* Laplacian response at every interior pixel at least that of the first,
\* the second has no smaller sharpness and no more blur regions.
C12_SharperIsNoBlurrier ==
  (ComparesTwoBuffers /\ result.args \in NoLessResponsive) =>
    /\ result.value.sharpness[2] >= result.value.sharpness[1]
    /\ Len(result.value.blurRegions[2]) <= Len(result.value.blurRegions[1])

\* the half of C12 that is about the sharpness metric
C12_SharperHasNoSmallerSharpness ==
  (ComparesTwoBuffers /\ result.args \in NoLessResponsive) =>
    result.value.sharpness[2] >= result.value.sharpness[1]

IssuesOfSeverity(issues, severity) == Len(SelectSeq(issues, LAMBDA i : i.severity = severity))

\* C14: with a classification, determineOverallQuality maps its qualityClass
\* (excellent, good to Good; fair to Fair; poor, very_poor to Poor) whatever
\* the issues are; without one, the verdict is Poor for at least one high or
\* more than two medium issues, else Fair for at least one medium issue or
\* more than two issues, else Good.
C14_ClassificationDecidesElseIssueCounts ==
  (result # undefined /\ result.call = "determineOverallQuality") =>
    LET ai == result.args.aiClassification
        issues == result.args.issues
        high == IssuesOfSeverity(issues, "high")
        medium == IssuesOfSeverity(issues, "medium")
    IN IF ai # undefined
       THEN /\ ai.qualityClass \in {"excellent", "good"} => result.value = "Good"
            /\ ai.qualityClass = "fair" => result.value = "Fair"
            /\ ai.qualityClass \in {"poor", "very_poor"} => result.value = "Poor"
       ELSE result.value = (IF high >= 1 \/ medium > 2 THEN "Poor"
                            ELSE IF medium >= 1 \/ Len(issues) > 2 THEN "Fair"
                            ELSE "Good")

\* without a classification, two medium issues and no high one give Fair
C14_Witness ==
  /\ result # undefined
  /\ result.call = "determineOverallQuality"
  /\ result.args.aiClassification = undefined
  /\ IssuesOfSeverity(result.args.issues, "medium") = 2
  /\ IssuesOfSeverity(result.args.issues, "high") = 0
  /\ result.value = "Fair"

\* the technical score of the call in `result` as C15 states it, with the
\* weight of the saturation in thousandths left open; the sum is formed in
\* thousandths of a score unit, where every term is exact
StatedTechnicalScore(saturationWeight) ==
  LET m == result.args.basicMetrics
      b == result.args.blurAnalysis
      cb == result.args.contrastBrightnessAnalysis
      sum == 250 * m.sharpness + 100 * SCALE + 200 * m.contrast + 50 * SCALE
             + 150 * (SCALE - 2 * Abs(m.brightness - Milli(500)))
             + saturationWeight * m.saturation + 150 * (SCALE - m.noise)
             + (IF b # undefined /\ b.overallBlurScore > Milli(700) THEN 100 * SCALE ELSE 0)
             + (IF cb # undefined /\ cb.exposureAnalysis.optimalExposure THEN 100 * SCALE ELSE 0)
  IN Max2(0, Min2(SCALE, sum \div 1000))

\* C15, as stated: technicalScore is the clamp to [0,1] of 0.25 sharpness
\* + 0.1 + 0.2 contrast + 0.05 + 0.15 (1 - 2 |brightness - 0.5|)
\* + 0.15 saturation + 0.15 (1 - noise), plus 0.1 when overallBlurScore > 0.7
\* and 0.1 when optimalExposure is true.
C15_TechnicalScoreAsStated ==
  (result # undefined /\ result.call = "calculateTechnicalScore") =>
    result.value = StatedTechnicalScore(150)

\* C15, amended: the same sum with 0.1 saturation in place of
\* 0.15 saturation.
C15_TechnicalScoreSaturationTenth ==
  (result # undefined /\ result.call = "calculateTechnicalScore") =>
    result.value = StatedTechnicalScore(100)

\* a technical score below the clamp, with saturation and both bonuses
C15_Witness ==
  /\ result # undefined
  /\ result.call = "calculateTechnicalScore"
  /\ result.args.basicMetrics.saturation = SCALE
  /\ result.args.blurAnalysis # undefined
  /\ result.args.blurAnalysis.overallBlurScore > Milli(700)
  /\ result.args.contrastBrightnessAnalysis # undefined
  /\ result.args.contrastBrightnessAnalysis.exposureAnalysis.optimalExposure
  /\ result.value < SCALE

\* the first luminance bin of picture k at which the cumulative histogram
\* reaches the given number of tenths of the pixels
PercentileBin(k, tenths) ==
  LET lum == ContrastBrightnessOf[k].histogram.luminance
      reached(i) == 10 * Cumulative(lum, i) >= tenths * Cumulative(lum, HISTOGRAM_BINS - 1)
  IN CHOOSE i \in Bins : reached(i) /\ \A j \in Bins : reached(j) => i <= j

\* the 10th and 90th percentile bins of each picture
PercentileBins ==
  SubSeq([k \in 1..Len(Pictures) |-> [p10 |-> PercentileBin(k, 1), p90 |-> PercentileBin(k, 9)]],
         1, Len(Pictures))

\* C16: contrastRatio is the 90th-percentile bin of the cumulative luminance
\* histogram divided by the 10th-percentile bin, and is 1 whenever the
\* 10th-percentile bin is 0.
C16_ContrastRatioOfPercentileBins ==
  (contrastBrightnessAnalysisResult # undefined /\ imageData \in 1..Len(Pictures)) =>
    contrastBrightnessAnalysisResult.contrast.contrastRatio =
      (IF PercentileBins[imageData].p10 = 0 THEN SCALE
       ELSE Ratio(PercentileBins[imageData].p90, PercentileBins[imageData].p10))

\* C17: every blur region is 32 x 32, at multiples of 32, inside the image,
\* and the regions are in row-major block order: strictly increasing by
\* (y, x), so no block is reported twice.
C17_RegionsAreBlocksInRasterOrder ==
  (result # undefined /\ result.call = "detectBlurRegions") =>
    LET regions == result.value
        img == RegionProbes[result.args]
    IN /\ \A i \in DOMAIN regions :
            /\ regions[i].width = 32 /\ regions[i].height = 32
            /\ regions[i].x >= 0 /\ regions[i].x % 32 = 0
            /\ regions[i].y >= 0 /\ regions[i].y % 32 = 0
            /\ regions[i].x + 32 <= img.width
            /\ regions[i].y + 32 <= img.height
       /\ \A i \in DOMAIN regions, j \in DOMAIN regions :
            i < j => \/ regions[i].y < regions[j].y
                     \/ (regions[i].y = regions[j].y /\ regions[i].x < regions[j].x)

\* regions in two rows, a block with no region between two of a row
C17_Witness ==
  /\ result # undefined
  /\ result.call = "detectBlurRegions"
  /\ Len(result.value) = 4
  /\ result.value[2].x = 64 /\ result.value[2].y = 0
  /\ result.value[3].x = 0 /\ result.value[3].y = 32

\* the largest of the three directional differences of a buffer exceeds 1.5
\* times their average
LooksLikeMotion(img) ==
  LET h == calculateDirectionalBlur(img, <<1, 0>>)
      v == calculateDirectionalBlur(img, <<0, 1>>)
      d == calculateDirectionalBlur(img, <<1, 1>>)
  IN \E m \in {h, v, d} : m >= h /\ m >= v /\ m >= d /\ 2 * 3 * m > 3 * (h + v + d)

\* C18: detectBlurType returns none when overallBlurScore > 0.7; otherwise
\* motion when the largest directional difference exceeds 1.5 times the
\* average of the three; otherwise focus when overallBlurScore < 0.3;
\* otherwise gaussian.
C18_BlurTypeDecisionOrder ==
  (result # undefined /\ result.call = "detectBlurType") =>
    LET s == result.args.overallScore
        img == TypeProbes[result.args.imageData]
    IN /\ result.value \in {"none", "motion", "focus", "gaussian"}
       /\ result.value = "none" <=> JGt(s, Milli(700))
       /\ result.value = "motion" <=> (~JGt(s, Milli(700)) /\ LooksLikeMotion(img))
       /\ result.value = "focus" <=>
            (~JGt(s, Milli(700)) /\ ~LooksLikeMotion(img) /\ JLt(s, Milli(300)))

\* a motion verdict at a score below 0.3
C18_Witness ==
  /\ result # undefined
  /\ result.call = "detectBlurType"
  /\ result.value = "motion"
  /\ result.args.overallScore < Milli(300)
  /\ result.args.overallScore # NaN

\* ten times the overall score of the features of the call in `result`
TenfoldOverallScore ==
  4 * result.args.technicalScore + 3 * result.args.aestheticScore
    + 3 * result.args.compositionScore

\* C19: with overallScore = 0.4 technicalScore + 0.3 aestheticScore
\* + 0.3 compositionScore, qualityClass is excellent iff overallScore >= 0.9
\* and professionalGrade; else good iff overallScore >= 0.75; else fair iff
\* >= 0.5; else poor iff >= 0.25; else very_poor.
C19_QualityClassThresholds ==
  (result # undefined /\ result.call = "predictQualityClass") =>
    LET s == TenfoldOverallScore
        excellent == s >= 10 * Milli(900) /\ result.args.professionalGrade
    IN /\ result.value = "excellent" <=> excellent
       /\ result.value = "good" <=> (~excellent /\ s >= 10 * Milli(750))
       /\ result.value = "fair" <=> (s < 10 * Milli(750) /\ s >= 10 * Milli(500))
       /\ result.value = "poor" <=> (s < 10 * Milli(500) /\ s >= 10 * Milli(250))
       /\ result.value = "very_poor" <=> s < 10 * Milli(250)

\* an overall score of at least 0.9 without professionalGrade is good
C19_Witness ==
  /\ result # undefined
  /\ result.call = "predictQualityClass"
  /\ TenfoldOverallScore >= 10 * Milli(900)
  /\ ~result.args.professionalGrade
  /\ result.value = "good"

\* the issues of a type among those returned
IssuesOfType(issues, type) == SelectSeq(issues, LAMBDA i : i.type = type)

\* C20: detectIssues emits a blur issue iff a blur analysis is given and its
\* overallBlurScore is below 0.5; the severity is high below 0.2, medium in
\* [0.2, 0.35) and low in [0.35, 0.5), and the score is 1 - overallBlurScore.
C20_BlurIssue ==
  (result # undefined /\ result.call = "detectIssues") =>
    LET b == result.args.blurAnalysis
        blur == IssuesOfType(result.value, "blur")
    IN /\ Len(blur) <= 1
       /\ Len(blur) = 1 <=> (b # undefined /\ JLt(b.overallBlurScore, Milli(500)))
       /\ Len(blur) = 1 =>
            /\ blur[1].severity = "high" <=> b.overallBlurScore < Milli(200)
            /\ blur[1].severity = "medium" <=>
                 (Milli(200) <= b.overallBlurScore /\ b.overallBlurScore < Milli(350))
            /\ blur[1].severity = "low" <=>
                 (Milli(350) <= b.overallBlurScore /\ b.overallBlurScore < Milli(500))
            /\ blur[1].score = SCALE - b.overallBlurScore

\* a blur issue of medium severity, at the score 0.2
C20_Witness ==
  /\ result # undefined
  /\ result.call = "detectIssues"
  /\ Len(IssuesOfType(result.value, "blur")) = 1
  /\ result.args.blurAnalysis.overallBlurScore = Milli(200)
  /\ IssuesOfType(result.value, "blur")[1].severity = "medium"

\* C21: detectIssues decides the contrast issue from the mean of globalContrast
\* and localContrast when the contrast-brightness analysis is given, and from
\* metrics.contrast only when it is not: below 0.3 an issue, high below 0.1,
\* medium below 0.2, else low; at most one contrast issue is emitted, and with
\* the analysis given metrics.contrast has no say.
C21_ContrastIssueFromOnePath ==
  (result # undefined /\ result.call = "detectIssues") =>
    LET cb == result.args.contrastBrightnessAnalysis
        c == IF cb # undefined
             THEN (cb.contrast.globalContrast + cb.contrast.localContrast) \div 2
             ELSE result.args.metrics.contrast
        contrast == IssuesOfType(result.value, "contrast")
    IN /\ Len(contrast) <= 1
       /\ Len(contrast) = 1 <=> c < Milli(300)
       /\ Len(contrast) = 1 =>
            /\ contrast[1].severity = "high" <=> c < Milli(100)
            /\ contrast[1].severity = "medium" <=> (Milli(100) <= c /\ c < Milli(200))
            /\ contrast[1].severity = "low" <=> Milli(200) <= c
            /\ contrast[1].score = SCALE - c

\* the analysis is given with a mean contrast of 0.3 while metrics.contrast is
\* 0.05: no contrast issue
C21_Witness ==
  /\ result # undefined
  /\ result.call = "detectIssues"
  /\ result.args.contrastBrightnessAnalysis # undefined
  /\ result.args.contrastBrightnessAnalysis.contrast.globalContrast = Milli(300)
  /\ result.args.contrastBrightnessAnalysis.contrast.localContrast = Milli(300)
  /\ result.args.metrics.contrast = Milli(50)
  /\ IssuesOfType(result.value, "contrast") = << >>

\* C22: with the contrast-brightness analysis given, detectIssues emits a
\* brightness issue iff exposureLevel is not optimal, high if clippedShadows or
\* clippedHighlights exceeds 0.1 and medium otherwise; with no analysis given it
\* emits one iff metrics.brightness is outside [0.2, 0.8], high below 0.1 or
\* above 0.9, medium below 0.15 or above 0.85, low otherwise.
C22_BrightnessIssue ==
  (result # undefined /\ result.call = "detectIssues") =>
    LET cb == result.args.contrastBrightnessAnalysis
        v == result.args.metrics.brightness
        brightness == IssuesOfType(result.value, "brightness")
    IN /\ Len(brightness) <= 1
       /\ cb # undefined =>
            /\ Len(brightness) = 1 <=> cb.brightness.exposureLevel # "optimal"
            /\ Len(brightness) = 1 =>
                 brightness[1].severity =
                   IF cb.exposureAnalysis.clippedShadows > Milli(100)
                        \/ cb.exposureAnalysis.clippedHighlights > Milli(100)
                   THEN "high" ELSE "medium"
       /\ cb = undefined =>
            /\ Len(brightness) = 1 <=> (v < Milli(200) \/ v > Milli(800))
            /\ Len(brightness) = 1 =>
                 brightness[1].severity =
                   IF v < Milli(100) \/ v > Milli(900) THEN "high"
                   ELSE IF v < Milli(150) \/ v > Milli(850) THEN "medium" ELSE "low"

\* an overexposed image with only its highlights clipped: a high brightness issue
C22_Witness ==
  /\ result # undefined
  /\ result.call = "detectIssues"
  /\ result.args.contrastBrightnessAnalysis # undefined
  /\ result.args.contrastBrightnessAnalysis.exposureAnalysis.clippedHighlights > Milli(100)
  /\ result.args.contrastBrightnessAnalysis.exposureAnalysis.clippedShadows = 0
  /\ Len(IssuesOfType(result.value, "brightness")) = 1
  /\ IssuesOfType(result.value, "brightness")[1].severity = "high"

\* C24: recommendedAdjustment is chosen by strict priority: averageBrightness
\* below 0.3 gives the increase-exposure text; else above 0.7 the
\* decrease-exposure text; else clippedShadows above 0.05 the lift-shadows
\* text; else clippedHighlights above 0.05 the lower-highlights text; else no
\* adjustment is needed.
C24_RecommendedAdjustmentPriority ==
  (result # undefined /\ result.call = "analyzeContrastBrightness") =>
    LET b == result.value.brightness.averageBrightness
        e == result.value.exposureAnalysis
    IN e.recommendedAdjustment =
         IF b < (3 * SCALE) \div 10 THEN "Increase exposure by +0.5 to +1.5 stops"
         ELSE IF b > (7 * SCALE) \div 10 THEN "Decrease exposure by -0.5 to -1.5 stops"
         ELSE IF e.clippedShadows > (5 * SCALE) \div 100 THEN "Lift shadows to recover detail"
         ELSE IF e.clippedHighlights > (5 * SCALE) \div 100 THEN "Lower highlights to recover detail"
         ELSE "No adjustment needed"

\* a mid-toned picture with both ends clipped: the shadows win
C24_Witness ==
  /\ result # undefined
  /\ result.call = "analyzeContrastBrightness"
  /\ result.value.brightness.exposureLevel = "optimal"
  /\ result.value.exposureAnalysis.clippedShadows > (5 * SCALE) \div 100
  /\ result.value.exposureAnalysis.clippedHighlights > (5 * SCALE) \div 100
  /\ result.value.exposureAnalysis.recommendedAdjustment = "Lift shadows to recover detail"

\* the place of a rule in generateRecommendations
RuleOrder(category) ==
  CASE category = "sharpness" -> 1
    [] category = "exposure" -> 2
    [] category = "color" -> 3
    [] category = "noise" -> 4
    [] category = "composition" -> 5

\* high = 3, medium = 2, low = 1
PriorityRank(r) == IF r.priority = "high" THEN 3 ELSE IF r.priority = "medium" THEN 2 ELSE 1

\* C23: the recommendations are sorted by descending priority rank: none is
\* followed by one of higher priority, and recommendations of equal priority
\* are in the order of their rules (sharpness, exposure, color, noise,
\* composition).
C23_RecommendationsByPriorityStable ==
  (result # undefined /\ result.call = "generateRecommendations") =>
    \A i, j \in DOMAIN result.value :
      i < j =>
        /\ PriorityRank(result.value[i]) >= PriorityRank(result.value[j])
        /\ PriorityRank(result.value[i]) = PriorityRank(result.value[j]) =>
             RuleOrder(result.value[i].category) < RuleOrder(result.value[j].category)

\* the sort has moved the exposure and noise recommendations, both high, in
\* front of the sharpness one, which is medium
C23_Witness ==
  /\ result # undefined
  /\ result.call = "generateRecommendations"
  /\ Len(result.value) = 4
  /\ result.value[1].category = "exposure" /\ result.value[1].priority = "high"
  /\ result.value[2].category = "noise" /\ result.value[2].priority = "high"
  /\ result.value[3].category = "sharpness" /\ result.value[3].priority = "medium"
  /\ result.value[4].category = "composition"

\* the entries of recommendedUses for the gates that hold, in the order
\* archival, professional, print, web
UsesOfGates(archival, professional, print, web) ==
  (IF archival THEN <<"Archival storage", "Fine art printing">> ELSE << >>)
  \o (IF professional THEN <<"Professional photography", "Commercial use">> ELSE << >>)
  \o (IF print THEN <<"High-quality printing", "Large format display">> ELSE << >>)
  \o (IF web THEN <<"Web display", "Social media">> ELSE << >>)

\* C25: suitableForPrint = technicalScore > 0.7 and sharpness > 0.6,
\* webOptimized = technicalScore > 0.5, professionalUse = professionalGrade and
\* technicalScore > 0.8, archivalQuality = technicalScore > 0.85 and
\* noise < 0.2; recommendedUses lists the entries of the gates that hold in the
\* order archival, professional, print, web, and is the thumbnail fallback iff
\* no gate holds.
C25_TechnicalAssessmentGates ==
  (result # undefined /\ result.call = "classifyImage") =>
    LET t == result.value.features.technicalScore
        a == result.value.technicalAssessment
        m == result.args.basicMetrics
        fallback == <<"Thumbnail use", "Low-resolution display">>
    IN /\ a.suitableForPrint <=> (t > Milli(700) /\ m.sharpness > Milli(600))
       /\ a.webOptimized <=> t > Milli(500)
       /\ a.professionalUse <=> (result.value.features.professionalGrade /\ t > Milli(800))
       /\ a.archivalQuality <=> (t > Milli(850) /\ m.noise < Milli(200))
       /\ IF a.archivalQuality \/ a.professionalUse \/ a.suitableForPrint \/ a.webOptimized
          THEN a.recommendedUses = UsesOfGates(a.archivalQuality, a.professionalUse,
                                               a.suitableForPrint, a.webOptimized)
          ELSE a.recommendedUses = fallback

\* all four gates hold and the list has the eight entries in order
C25_Witness ==
  /\ result # undefined
  /\ result.call = "classifyImage"
  /\ result.value.technicalAssessment.archivalQuality
  /\ result.value.technicalAssessment.professionalUse
  /\ result.value.technicalAssessment.suitableForPrint
  /\ Len(result.value.technicalAssessment.recommendedUses) = 8
  /\ result.value.technicalAssessment.recommendedUses[1] = "Archival storage"
  /\ result.value.technicalAssessment.recommendedUses[7] = "Web display"

\* C26: for metrics in [0, 1] and any placeholder draws the classifier's
\* overallScore is at least 0.345, so the class is never very_poor and the
\* '+0.1 when overallScore < 0.3' confidence branch is not taken.
C26_OverallScoreAtLeast ==
  (result # undefined /\ result.call = "classifyImage") =>
    /\ OverallScore(result.value.features) >= Milli(345)
    /\ result.value.qualityClass # "very_poor"
    /\ OverallScore(result.value.features) <= Milli(800) =>
         result.value.confidence <= Milli(800)

\* C26, the pipeline: overallQuality Poor arises only from qualityClass poor
C26_PoorOnlyFromClassPoor ==
  (pc = "resolved" /\ result.overallQuality = "Poor") =>
    result.aiClassification.qualityClass = "poor"

\* the lowest overallScore: all metrics at their worst, all draws 0
C26_Witness ==
  /\ result # undefined
  /\ result.call = "classifyImage"
  /\ OverallScore(result.value.features) = Milli(345)
  /\ result.value.qualityClass = "poor"

\* C27: professionalUse equals professionalGrade; archivalQuality,
\* professionalUse and suitableForPrint each imply webOptimized; the thumbnail
\* fallback is in recommendedUses exactly when webOptimized is false
\* (technicalScore <= 0.5) and the web entries are in every other list.
C27_GatesImplyWeb ==
  (result # undefined /\ result.call = "classifyImage") =>
    LET a == result.value.technicalAssessment
        uses == {a.recommendedUses[i] : i \in DOMAIN a.recommendedUses}
    IN /\ a.professionalUse <=> result.value.features.professionalGrade
       /\ a.archivalQuality => a.webOptimized
       /\ a.professionalUse => a.webOptimized
       /\ a.suitableForPrint => a.webOptimized
       /\ "Thumbnail use" \in uses <=> ~a.webOptimized
       /\ "Low-resolution display" \in uses <=> ~a.webOptimized
       /\ ~a.webOptimized <=> result.value.features.technicalScore <= Milli(500)
       /\ "Thumbnail use" \notin uses => {"Web display", "Social media"} \subseteq uses

\* a technicalScore of exactly 0.5: not web optimized, the fallback list
C27_Witness ==
  /\ result # undefined
  /\ result.call = "classifyImage"
  /\ result.value.features.technicalScore = Milli(500)
  /\ result.value.technicalAssessment.recommendedUses = <<"Thumbnail use", "Low-resolution display">>

\* C29: two overlapping analyzeImage calls on one analyzer each analyse the
\* pixels of their own image, in every order in which the images load: the
\* locals of a call's handler and its result are those of its own picture.
C29_EachCallAnalyzesItsOwnImage ==
  pc = "overlap" =>
    \A c \in Callers :
      /\ inflight[c].pc \in {"awaiting", "resolved"} =>
           /\ inflight[c].imageData = inflight[c].src
           /\ inflight[c].metrics = MetricsOf[inflight[c].src]
           /\ inflight[c].blurAnalysis = BlurOf[inflight[c].src]
           /\ inflight[c].contrastBrightnessAnalysisResult = ContrastBrightnessOf[inflight[c].src]
      /\ inflight[c].pc = "resolved" =>
           /\ inflight[c].result.metrics = MetricsOf[inflight[c].src]
           /\ inflight[c].result.blurAnalysis = BlurOf[inflight[c].src]
           /\ inflight[c].result.contrastBrightnessAnalysis = ContrastBrightnessOf[inflight[c].src]

\* the first call has resolved while the canvas holds the picture of the
\* second, which is still at its await
C29_Witness ==
  /\ pc = "overlap"
  /\ inflight[1].pc = "resolved"
  /\ inflight[2].pc = "awaiting"
  /\ inflight[1].src # inflight[2].src
  /\ canvas.pixels = inflight[2].src
  /\ inflight[1].result.metrics # MetricsOf[inflight[2].src]

\* C28: whenever analysisResults is non-null it was computed from the image
\* held in uploadedImage.
C28_ResultsAreOfTheUploadedImage ==
  (pc = "page" /\ page.analysisResults # null) => page.resultsOf = page.uploadedImage

\* handleAnalyze runs that have been started and have not reached their end
PageRunning == pc = "page" /\ page.run.pc \in {"loading", "awaiting", "fetching", "parsing"}

\* what holds of a handleAnalyze run at every moment
C30_RunIsWellFormed ==
  pc = "page" =>
    /\ page.isAnalyzing <=> PageRunning
    /\ page.run.fetched => (page.run.error # undefined /\ page.run.settled = 1)
    /\ page.run.settled <= 1
    /\ page.run.pc \in {"awaiting", "loading"} => page.run.settled = 0
    /\ page.run.pc \in {"fetching", "parsing", "done"} => page.run.settled = 1
    /\ page.run.error # undefined =>
         (page.run.uploadedImage = BrokenUrl /\ page.run.error.message = "Failed to load image")
    /\ page.run.pc = "done" =>
         /\ page.run.outcome \in {"local", "fallback", "failed"}
         /\ page.run.outcome = "local" <=> ~page.run.fetched
    /\ page.run.pc # "done" => page.run.outcome = "none"

\* what a run's last step stores
C30_RunStores ==
  (pc = "page" /\ page'.run.pc = "done" /\ page.run.pc # "done") =>
    CASE page'.run.outcome = "local" ->
           /\ page'.analysisResults # null
           /\ ResultsValue(page'.analysisResults).metrics = MetricsOf[page.run.uploadedImage]
      [] page'.run.outcome = "fallback" -> page'.analysisResults = mockAnalysis
      [] OTHER -> page'.analysisResults = page.analysisResults

\* C30: every handleAnalyze run started with an uploaded image eventually
\* sets isAnalyzing back to false, given that the image load and the fallback
\* request settle, in each of the three outcomes: the local analysis succeeds
\* (results stored), it fails and the fallback succeeds (fallback results
\* stored), both fail (analysisResults unchanged).  The fallback is attempted
\* only after the local analysis has failed; analyzeImage settles exactly
\* once, and rejects with 'Failed to load image' on a load error.
C30_AnalyzeEventuallyEnds ==
  /\ []C30_RunIsWellFormed
  /\ [][C30_RunStores]_vars
  /\ (pc = "page" /\ page.isAnalyzing) ~> (pc = "page" /\ ~page.isAnalyzing)

\* a run has ended after the load error and the fallback's answer
C30_Witness ==
  /\ pc = "page"
  /\ page.run.pc = "done"
  /\ page.run.outcome = "fallback"
  /\ page.run.error # undefined
  /\ ~page.isAnalyzing
  /\ page.analysisResults = mockAnalysis

====
